---- MODULE Spec2Model ----
(***************************************************************************)
(* A model of the quote cache of komsit37/wl (package enrich): the         *)
(* TTL+LRU CacheService that decorates a QuoteService, and the part of     *)
(* YFService.Get that the cache sees (empty-symbol short circuit, one      *)
(* upstream request, error or values).                                     *)
(*                                                                         *)
(* Strings are sequences of one-character strings, so that the cache key   *)
(* is built the way fmt.Sprintf("%s|%d", sym, need) builds it.             *)
(* Time is a discrete clock; ttl is counted in the same unit.              *)
(* Two goroutines (Procs) call Get concurrently.                           *)
(***************************************************************************)
EXTENDS Integers, Sequences, FiniteSets, TLC

\* ---------------------------------------------------------------- bounds
\* Last reading of the clock (time.Now()); Tick stops there.
MaxTime == 1
\* Largest capacity NewCacheService is constructed with (0..MaxSize).
MaxSize == 2
\* Cap on len(c.order): the list grows without bound under repeated
\* same-key races, so an insert is only taken while it is shorter.
MaxOrder == 2

\* The TTLs NewCacheService is constructed with, in clock units.
TTLs == {0, 1}
\* The distinct payloads the upstream answers one request with.
Vers == {1, 2}
\* The goroutines that call Get.
Procs == {1, 2}

\* ------------------------------------------------------ NeedMask constants
NeedNone == 0
NeedPrice == 2
NeedChgPct == 4
NeedExchange == 8
NeedIndustry == 16
NeedPE == 32
NeedROE == 64
NeedAssetProfile == 128

\* --------------------------------------------------------------- inputs
EmptySym == << >>
SymA == <<"A">>
\* The (symbol, need) pairs the goroutines ask for through the cache: one
\* symbol under two need masks.
CacheArgs == {<<SymA, NeedPrice + NeedChgPct>>, <<SymA, NeedIndustry>>}
\* The pair Get is called with for "nothing to enrich".
EmptyArgs == {<<EmptySym, NeedPrice>>}
\* The pairs YFService.Get is called with directly.
DirectArgs == {<<EmptySym, NeedPrice>>, <<SymA, NeedIndustry>>}
\* Symbols and need masks over which the key function is compared.
KeySyms == {<<"A">>, <<"A", "1">>, <<"A", "|", "1">>, <<"A", "|">>}
KeyNeeds == {NeedNone, 1, NeedPrice + NeedChgPct, NeedIndustry}

\* --------------------------------------------------------------- values
Nil == "nil"
ErrUpstream == "upstream error"
ErrNoPrice == "no price"

\* types.Quote{} and types.Fundamentals{}
ZeroQuote == [kind |-> "quote", sym |-> EmptySym, ver |-> 0]
ZeroFund == [kind |-> "fund", sym |-> EmptySym, need |-> 0, ver |-> 0]
ZeroRes == [q |-> ZeroQuote, f |-> ZeroFund, err |-> Nil]

\* What the upstream answers to one QuoteSummary request.
Responses == {[kind |-> "error", ver |-> 0], [kind |-> "noprice", ver |-> 0]}
             \cup {[kind |-> "ok", ver |-> v] : v \in Vers}
\* The answers drawn for a direct YFService.Get: one failure, one payload.
DirectResponses == {[kind |-> "noprice", ver |-> 0], [kind |-> "ok", ver |-> 1]}

\* ------------------------------------------------------------- formatting
Digit(d) ==
  CASE d = 0 -> "0" [] d = 1 -> "1" [] d = 2 -> "2" [] d = 3 -> "3"
    [] d = 4 -> "4" [] d = 5 -> "5" [] d = 6 -> "6" [] d = 7 -> "7"
    [] d = 8 -> "8" [] d = 9 -> "9"

\* %d of an unsigned integer.
RECURSIVE Dec(_)
Dec(n) == IF n < 10 THEN <<Digit(n)>> ELSE Dec(n \div 10) \o <<Digit(n % 10)>>

\* CacheService.key: fmt.Sprintf("%s|%d", sym, need)
KeyBySymbolOnly(s, n) == s
key(s, n) == s \o <<"|">> \o Dec(n)

\* ----------------------------------------------------------- YFService.Get
\* The values a successful fetch decodes: the quote comes from the price
\* module (always requested), the fundamentals depend on the need mask.
Quote(s, v) == [kind |-> "quote", sym |-> s, ver |-> v]
Fund(s, n, v) == [kind |-> "fund", sym |-> s, need |-> n, ver |-> v]

\* YFService.Get(sym, need) when the upstream answers resp; up is the number
\* of upstream requests made.
YFServiceGet(s, n, resp) ==
  IF s = EmptySym THEN [q |-> ZeroQuote, f |-> ZeroFund, err |-> Nil, up |-> 0]
  ELSE IF resp.kind = "error" THEN [q |-> ZeroQuote, f |-> ZeroFund, err |-> ErrUpstream, up |-> 1]
  ELSE IF resp.kind = "noprice" THEN [q |-> ZeroQuote, f |-> ZeroFund, err |-> ErrNoPrice, up |-> 1]
  ELSE [q |-> Quote(s, resp.ver), f |-> Fund(s, n, resp.ver), err |-> Nil, up |-> 1]

\* ------------------------------------------------------------ list helpers
RECURSIVE IndexOf(_, _, _)
\* Index of the first occurrence of x in seq at or after i, 0 when absent.
IndexOf(seq, x, i) ==
  IF i > Len(seq) THEN 0 ELSE IF seq[i] = x THEN i ELSE IndexOf(seq, x, i + 1)

RemoveAt(seq, i) == SubSeq(seq, 1, i - 1) \o SubSeq(seq, i + 1, Len(seq))

\* CacheService.removeFromOrderLocked: drops the first occurrence of x.
removeFromOrderLocked(ord, x) ==
  LET i == IndexOf(ord, x, 1) IN IF i = 0 THEN ord ELSE RemoveAt(ord, i)

\* CacheService.touchLocked: moves the first occurrence of x to the end.
touchLocked(ord, x) ==
  LET i == IndexOf(ord, x, 1) IN
    IF i = 0 THEN Append(ord, x) ELSE Append(RemoveAt(ord, i), x)

\* delete(c.items, x) and c.items[x] = e
MapDelete(m, x) == [y \in DOMAIN m \ {x} |-> m[y]]
MapSet(m, x, e) == [y \in DOMAIN m \cup {x} |-> IF y = x THEN e ELSE m[y]]

\* now.Sub(ent.at) <= c.ttl
AlwaysLive(t, at, d) == TRUE
LiveStrict(t, at, d) == t - at < d
LiveSlack(t, at, d) == t - at <= d + 1
Live(t, at, d) == t - at <= d

RECURSIVE EnforceSize(_, _, _)
\* The "Enforce size" loop of Get: pops the head of the order list and
\* deletes that key until the map fits or the list is empty.
NoEnforceSize(m, ord, cap) == <<m, ord>>
EnforceSize(m, ord, cap) ==
  IF Cardinality(DOMAIN m) > cap /\ Len(ord) > 0
  THEN EnforceSize(MapDelete(m, Head(ord)), Tail(ord), cap)
  ELSE <<m, ord>>

\* ================================================================ strings
\* The characters that occur in column names and field keys, in byte order
\* (sort.Strings compares byte-wise).
Ascii ==
  <<" ", "%", "(", ")", "+", "-", ".", "0", "1", "2", "3", "4", "5", "6", "7", "8", "9",
    "A", "B", "C", "D", "E", "F", "G", "H", "I", "J", "K", "L", "M",
    "N", "O", "P", "Q", "R", "S", "T", "U", "V", "W", "X", "Y", "Z", "_",
    "a", "b", "c", "d", "e", "f", "g", "h", "i", "j", "k", "l", "m",
    "n", "o", "p", "q", "r", "s", "t", "u", "v", "w", "x", "y", "z", "|">>
\* The rank of a character in byte order.
Code(c) == CHOOSE i \in 1..Len(Ascii) : Ascii[i] = c

UpperCase ==
  <<"A", "B", "C", "D", "E", "F", "G", "H", "I", "J", "K", "L", "M",
    "N", "O", "P", "Q", "R", "S", "T", "U", "V", "W", "X", "Y", "Z">>
LowerCase ==
  <<"a", "b", "c", "d", "e", "f", "g", "h", "i", "j", "k", "l", "m",
    "n", "o", "p", "q", "r", "s", "t", "u", "v", "w", "x", "y", "z">>

\* strings.ToLower and its converse on one character and on a string.
LowerChar(c) ==
  IF \E i \in 1..26 : UpperCase[i] = c
  THEN LowerCase[CHOOSE i \in 1..26 : UpperCase[i] = c] ELSE c
UpperChar(c) ==
  IF \E i \in 1..26 : LowerCase[i] = c
  THEN UpperCase[CHOOSE i \in 1..26 : LowerCase[i] = c] ELSE c
ToLower(s) == [i \in 1..Len(s) |-> LowerChar(s[i])]
ToUpper(s) == [i \in 1..Len(s) |-> UpperChar(s[i])]

RECURSIVE StrLess(_, _)
\* a < b as Go compares strings.
StrLess(a, b) ==
  IF b = << >> THEN FALSE
  ELSE IF a = << >> THEN TRUE
  ELSE IF Code(Head(a)) < Code(Head(b)) THEN TRUE
  ELSE IF Code(Head(a)) > Code(Head(b)) THEN FALSE
  ELSE StrLess(Tail(a), Tail(b))

RECURSIVE SortStrings(_)
\* sort.Strings over the keys of a set.
SortStrings(S) ==
  IF S = {} THEN << >>
  ELSE LET m == CHOOSE x \in S : \A y \in S \ {x} : StrLess(x, y)
       IN <<m>> \o SortStrings(S \ {m})

\* strings.Contains(s, sub)
Contains(s, sub) ==
  \E i \in 0..(Len(s) - Len(sub)) : SubSeq(s, i + 1, i + Len(sub)) = sub

\* The elements of a sequence.
Range(seq) == {seq[i] : i \in 1..Len(seq)}

\* ------------------------------------------------------------ column names
\* The column names the model uses, each under a field of its own: the keys
\* of Registry, aliases and the switch of NeedForColumns, and the names of
\* user fields.
Col ==
  [sym |-> <<"s", "y", "m">>,
   name |-> <<"n", "a", "m", "e">>,
   price |-> <<"p", "r", "i", "c", "e">>,
   chgpct |-> <<"c", "h", "g", "%">>,
   exchange |-> <<"e", "x", "c", "h", "a", "n", "g", "e">>,
   sector |-> <<"s", "e", "c", "t", "o", "r">>,
   industry |-> <<"i", "n", "d", "u", "s", "t", "r", "y">>,
   employees |-> <<"e", "m", "p", "l", "o", "y", "e", "e", "s">>,
   officers_count |-> <<"o", "f", "f", "i", "c", "e", "r", "s", "_", "c", "o", "u", "n", "t">>,
   avg_officer_age |-> <<"a", "v", "g", "_", "o", "f", "f", "i", "c", "e", "r", "_", "a", "g", "e">>,
   ceo |-> <<"c", "e", "o">>,
   hq |-> <<"h", "q">>,
   roepct |-> <<"r", "o", "e", "%">>,
   pe |-> <<"p", "e">>,
   beta |-> <<"b", "e", "t", "a">>,
   mktcap |-> <<"m", "k", "t", "c", "a", "p">>,
   marketcap |-> <<"m", "a", "r", "k", "e", "t", "c", "a", "p">>,
   MarketCap |-> <<"M", "a", "r", "k", "e", "t", "C", "a", "p">>,
   market_cap |-> <<"m", "a", "r", "k", "e", "t", "_", "c", "a", "p">>,
   div_rate |-> <<"d", "i", "v", "_", "r", "a", "t", "e">>,
   div_yieldpct |-> <<"d", "i", "v", "_", "y", "i", "e", "l", "d", "%">>,
   div |-> <<"d", "i", "v">>,
   divpct |-> <<"d", "i", "v", "%">>,
   watchlist |-> <<"w", "a", "t", "c", "h", "l", "i", "s", "t">>,
   thesis |-> <<"t", "h", "e", "s", "i", "s">>,
   PE |-> <<"P", "E">>,
   Thesis |-> <<"T", "h", "e", "s", "i", "s">>]

\* ----------------------------------------------------------- field values
\* A value of a YAML mapping (any): a string, an integer or nil.
StrVal(s) == [t |-> "str", s |-> s, n |-> 0]
IntVal(n) == [t |-> "int", s |-> << >>, n |-> n]
NilVal == [t |-> "nil", s |-> << >>, n |-> 0]

\* fmt.Sprint(v)
Sprint(v) ==
  IF v.t = "str" THEN v.s
  ELSE IF v.t = "int" THEN (IF v.n < 0 THEN <<"-">> \o Dec(-v.n) ELSE Dec(v.n))
  ELSE <<"<", "n", "i", "l", ">">>

\* source.toItem: Sym and Name are the string forms of the non-nil "sym" and
\* "name" entries, which are also stored in Fields; every other entry but
\* "watchlist" is copied to Fields as it is.
toItem(m) ==
  LET hasSym == Col.sym \in DOMAIN m /\ m[Col.sym] # NilVal
      hasName == Col.name \in DOMAIN m /\ m[Col.name] # NilVal
      Sym == IF hasSym THEN Sprint(m[Col.sym]) ELSE << >>
      Name == IF hasName THEN Sprint(m[Col.name]) ELSE << >>
      keys == (DOMAIN m \ {Col.sym, Col.name, Col.watchlist})
                \cup (IF hasSym THEN {Col.sym} ELSE {})
                \cup (IF hasName THEN {Col.name} ELSE {})
  IN [Sym |-> Sym,
      Name |-> Name,
      Fields |-> [x \in keys |->
                    IF x = Col.sym THEN StrVal(Sym)
                    ELSE IF x = Col.name THEN StrVal(Name) ELSE m[x]]]

\* ----------------------------------------------------------------- Compute
\* columns.indexOf and columns.contains; an index is 1-based and 0 stands
\* for Go's -1.
indexOf(s, v) == IndexOf(s, v, 1)
contains(s, v) == \E i \in 1..Len(s) : s[i] = v

\* columns.insertAfter: v goes right after position idx, or to the end when
\* idx is no position of s.
insertAfter(s, idx, v) ==
  IF idx < 1 \/ idx > Len(s) THEN Append(s, v)
  ELSE SubSeq(s, 1, idx) \o <<v>> \o SubSeq(s, idx + 1, Len(s))

RECURSIVE Dedupe(_, _, _)
\* The loop of Compute over explicit: met is the set of keys met so far.
Dedupe(explicit, met, out) ==
  IF explicit = << >> THEN out
  ELSE IF Head(explicit) \in met THEN Dedupe(Tail(explicit), met, out)
  ELSE Dedupe(Tail(explicit), met \cup {Head(explicit)}, Append(out, Head(explicit)))

\* The keys Compute discovers across the items.
Discovered(its) ==
  UNION {DOMAIN its[i].Fields : i \in 1..Len(its)}
    \cup (IF \E i \in 1..Len(its) : its[i].Sym # << >> THEN {Col.sym} ELSE {})
    \cup (IF \E i \in 1..Len(its) : its[i].Name # << >> THEN {Col.name} ELSE {})

\* The second half of Compute: name, price and chg% are put in after sym
\* unless the list already has them.
EnsureDefaultsPriceAfterSym(keys) ==
  LET symIdx == indexOf(keys, Col.sym) IN
    IF symIdx = 0 THEN keys
    ELSE LET keys2 == IF contains(keys, Col.name) THEN keys
                      ELSE insertAfter(keys, symIdx, Col.name)
             insertAfterIdx == IF contains(keys, Col.name) THEN symIdx
                               ELSE indexOf(keys2, Col.name)
             keys3 == IF contains(keys2, Col.price) THEN keys2
                      ELSE insertAfter(keys2, insertAfterIdx, Col.price)
             priceIdx == indexOf(keys3, Col.price)
         IN IF priceIdx # 0 /\ ~contains(keys3, Col.chgpct)
            THEN insertAfter(keys3, priceIdx, Col.chgpct)
            ELSE keys3
EnsureDefaults(keys) ==
  LET symIdx == indexOf(keys, Col.sym) IN
    IF symIdx = 0 THEN keys
    ELSE LET keys2 == IF contains(keys, Col.name) THEN keys
                      ELSE insertAfter(keys, symIdx, Col.name)
             nameIdx == indexOf(keys2, Col.name)
             insertAfterIdx == IF nameIdx # 0 THEN nameIdx ELSE symIdx
             keys3 == IF contains(keys2, Col.price) THEN keys2
                      ELSE insertAfter(keys2, insertAfterIdx, Col.price)
             priceIdx == indexOf(keys3, Col.price)
         IN IF priceIdx # 0 /\ ~contains(keys3, Col.chgpct)
            THEN insertAfter(keys3, priceIdx, Col.chgpct)
            ELSE keys3

\* Compute with the defaults put into an explicit list as well.
ComputeWithDefaults(explicit, its) ==
  IF Len(explicit) > 0 THEN EnsureDefaults(explicit)
  ELSE LET set == Discovered(its)
       IN EnsureDefaults((IF Col.sym \in set THEN <<Col.sym>> ELSE << >>)
                           \o SortStrings(set \ {Col.sym}))
\* Compute with sym listed first whether or not it was discovered.
ComputeSymAlways(explicit, its) ==
  IF Len(explicit) > 0 THEN Dedupe(explicit, {}, << >>)
  ELSE LET set == Discovered(its)
       IN EnsureDefaults(<<Col.sym>> \o SortStrings(set \ {Col.sym}))
\* columns.Compute(explicit, items)
Compute(explicit, its) ==
  IF Len(explicit) > 0 THEN Dedupe(explicit, {}, << >>)
  ELSE LET set == Discovered(its)
       IN EnsureDefaults((IF Col.sym \in set THEN <<Col.sym>> ELSE << >>)
                           \o SortStrings(set \ {Col.sym}))

\* ------------------------------------------------------------ need masks
\* The two module flags columns.go uses besides those above
\* (enrich.NeedFinancialData, enrich.NeedSummaryDetail): two further
\* distinct bits of the mask.
NeedFinancialData == 2 * NeedAssetProfile
NeedSummaryDetail == 2 * NeedFinancialData

RECURSIVE BitOr(_, _)
\* a | b on unsigned integers.
BitOr(a, b) ==
  IF a = 0 THEN b
  ELSE IF b = 0 THEN a
  ELSE 2 * BitOr(a \div 2, b \div 2) + (IF a % 2 = 1 \/ b % 2 = 1 THEN 1 ELSE 0)

\* columns.aliases
aliases ==
  (Col.marketcap :> Col.mktcap) @@ (Col.market_cap :> Col.mktcap)
    @@ (Col.div :> Col.div_rate) @@ (Col.divpct :> Col.div_yieldpct)

\* The lookup both NeedForColumns and RenderValue make: lower-case, then the
\* alias table.
CanonicalNoLower(c) == IF c \in DOMAIN aliases THEN aliases[c] ELSE c
Canonical(c) ==
  LET lc == ToLower(c) IN IF lc \in DOMAIN aliases THEN aliases[lc] ELSE lc

\* The switch of NeedForColumns on a canonical name.
NeedOf(lc) ==
  IF lc = Col.price THEN NeedPrice
  ELSE IF lc = Col.chgpct THEN NeedChgPct
  ELSE IF lc = Col.exchange THEN NeedExchange
  ELSE IF lc = Col.industry THEN NeedAssetProfile
  ELSE IF lc = Col.pe THEN NeedSummaryDetail
  ELSE IF lc = Col.roepct THEN NeedFinancialData
  ELSE IF lc \in {Col.sector, Col.employees, Col.officers_count,
                  Col.avg_officer_age, Col.ceo, Col.hq} THEN NeedAssetProfile
  ELSE IF lc \in {Col.mktcap, Col.marketcap, Col.market_cap, Col.beta,
                  Col.div_yieldpct, Col.div_rate} THEN NeedSummaryDetail
  ELSE NeedNone

RECURSIVE NeedFold(_, _)
\* The loop of NeedForColumns with its accumulator mask.
NeedFold(cols, mask) ==
  IF cols = << >> THEN mask
  ELSE NeedFold(Tail(cols), BitOr(mask, NeedOf(Canonical(Head(cols)))))

\* NeedForColumns keeping the mask of the last column only.
NeedOfLastColumn(cols) ==
  IF cols = << >> THEN NeedNone ELSE NeedOf(Canonical(cols[Len(cols)]))
\* columns.NeedForColumns(cols)
NeedForColumns(cols) == NeedFold(cols, NeedNone)

\* -------------------------------------------------- quotes and fundamentals
\* types.Quote and the members of types.Fundamentals the modelled columns
\* read. A pointer member is << >> when nil and <<v>> otherwise; the float
\* AvgOfficerAge is kept as the quotient num/den it was computed from.
ZeroQuoteVal == [Price |-> << >>, ChgFmt |-> << >>, ChgRaw |-> 0, Name |-> << >>]
ZeroFundamentals ==
  [Sector |-> << >>, Industry |-> << >>, Employees |-> 0, OfficersCount |-> 0,
   AvgOfficerAge |-> << >>, CEOName |-> << >>, CEOTitle |-> << >>,
   CEOAge |-> << >>, ReturnOnEquity |-> << >>, MarketCap |-> << >>,
   Beta |-> << >>, DividendYield |-> << >>, DividendRate |-> << >>,
   TrailingPE |-> << >>, City |-> << >>, Country |-> << >>, Phone |-> << >>,
   Website |-> << >>, IR |-> << >>]

\* The values a service hands out for a symbol it knows.
SomeQuote ==
  [Price |-> <<"1", "0">>, ChgFmt |-> <<"2", "%">>, ChgRaw |-> 2, Name |-> <<"Q">>]
SomeFundamentals ==
  [Sector |-> <<"T", "e", "c", "h">>, Industry |-> <<"S", "W">>,
   Employees |-> 1234, OfficersCount |-> 2,
   AvgOfficerAge |-> <<[num |-> 80, den |-> 2]>>,
   CEOName |-> <<"B">>, CEOTitle |-> <<"C", "E", "O">>, CEOAge |-> <<50>>,
   ReturnOnEquity |-> <<"9", "%">>, MarketCap |-> <<"3", "T">>,
   Beta |-> <<"1">>, DividendYield |-> <<"4", "%">>,
   DividendRate |-> <<"5">>, TrailingPE |-> <<"7">>,
   City |-> <<"T">>, Country |-> <<"J">>, Phone |-> <<"0", "3">>,
   Website |-> <<"h", "t", "t", "p", "s", ":", "/", "/", "w", "w", "w", ".", "e", ".", "c", "o">>, IR |-> << >>]

\* ------------------------------------------------------------- formatting
RECURSIVE CommaGroup(_)
\* The digits of an integer with a comma before every group of three.
CommaGroup(ds) ==
  IF Len(ds) <= 3 THEN ds
  ELSE CommaGroup(SubSeq(ds, 1, Len(ds) - 3)) \o <<",">>
         \o SubSeq(ds, Len(ds) - 2, Len(ds))

\* columns.formatIntComma(n)
formatIntComma(n) ==
  IF n < 0 THEN <<"-">> \o CommaGroup(Dec(-n)) ELSE CommaGroup(Dec(n))

\* columns.formatFloatComma(num/den, 1) for a quotient that is not negative:
\* %.1f rounds to the nearest tenth, an exact half to the even tenth (a
\* quotient that lies exactly on a half with den < 20 is a multiple of 1/4,
\* which float64 holds exactly).
formatFloatComma(num, den) ==
  LET q == (10 * num) \div den
      r == (10 * num) % den
      tenths == IF 2 * r > den THEN q + 1
                ELSE IF 2 * r < den THEN q
                ELSE IF q % 2 = 0 THEN q ELSE q + 1
  IN CommaGroup(Dec(tenths \div 10)) \o <<".">> \o <<Digit(tenths % 10)>>

RECURSIVE TrimLeft(_)
TrimLeft(s) == IF s # << >> /\ Head(s) = " " THEN TrimLeft(Tail(s)) ELSE s
RECURSIVE TrimRight(_)
TrimRight(s) ==
  IF s # << >> /\ s[Len(s)] = " " THEN TrimRight(SubSeq(s, 1, Len(s) - 1)) ELSE s
\* strings.TrimSpace(s)
TrimSpace(s) == TrimRight(TrimLeft(s))

\* The em dash (U+2014), one character of the ceo column, written here as
\* one element of its own.
EmDash == "--"
\* The separator and the age suffix of the ceo column: the em dash between
\* two spaces, and fmt.Sprintf(" (%d)", age).
EmDashSep == <<" ", EmDash, " ">>
AgeSuffix(age) == <<" ", "(">> \o Dec(age) \o <<")">>


\* ------------------------------------------------- officers (YFService.Get)
\* The keywords of the CEO selection.
Keywords ==
  {<<"c", "e", "o">>,
   <<"p", "r", "e", "s", "i", "d", "e", "n", "t">>,
   <<"r", "e", "p", "r", "e", "s", "e", "n", "t", "a", "t", "i", "v", "e", " ",
     "d", "i", "r", "e", "c", "t", "o", "r">>}

\* The title test of the CEO selection, on the lower-cased title.
IsChiefTitle(title) == \E kw \in Keywords : Contains(ToLower(title), kw)

RECURSIVE Fields(_)
\* strings.Fields(s): the maximal runs of non-space characters.
Fields(s) ==
  LET t == TrimLeft(s) IN
    IF t = << >> THEN << >>
    ELSE LET n == IF \E i \in 1..Len(t) : t[i] = " "
                  THEN (CHOOSE i \in 1..Len(t) :
                          t[i] = " " /\ \A j \in 1..(i - 1) : t[j] # " ") - 1
                  ELSE Len(t)
         IN <<SubSeq(t, 1, n)>> \o Fields(SubSeq(t, n + 1, Len(t)))

RECURSIVE Join(_, _)
\* strings.Join(parts, sep)
Join(parts, sep) ==
  IF parts = << >> THEN << >>
  ELSE IF Len(parts) = 1 THEN parts[1]
  ELSE parts[1] \o sep \o Join(Tail(parts), sep)

\* enrich.normalizeSpace(s)
normalizeSpace(s) == IF s = << >> THEN s ELSE Join(Fields(s), <<" ">>)

RECURSIVE BestIdxFrom(_, _)
\* The "CEO selection by title keywords" loop of YFService.Get from index i:
\* the first officer with a non-empty title that passes the title test, 0
\* (Go's -1) when there is none.
BestIdxFrom(officers, i) ==
  IF i > Len(officers) THEN 0
  ELSE IF officers[i].Title # << >> /\ IsChiefTitle(officers[i].Title) THEN i
  ELSE BestIdxFrom(officers, i + 1)

\* bestIdx after the fallback to the first officer.
BestIdxLastMatch(officers) ==
  LET m == {i \in 1..Len(officers) : IsChiefTitle(officers[i].Title)} IN
    IF m # {} THEN CHOOSE i \in m : \A j \in m : j <= i
    ELSE IF Len(officers) > 0 THEN 1 ELSE 0
BestIdx(officers) ==
  LET b == BestIdxFrom(officers, 1) IN
    IF b = 0 /\ Len(officers) > 0 THEN 1 ELSE b

RECURSIVE AgeSum(_)
RECURSIVE AgeCnt(_)
\* ageSum and ageCnt of YFService.Get: over the officers whose age is set.
AgeSum(officers) ==
  IF officers = << >> THEN 0
  ELSE (IF Head(officers).Age # << >> THEN Head(officers).Age[1] ELSE 0)
         + AgeSum(Tail(officers))
AgeCnt(officers) ==
  IF officers = << >> THEN 0
  ELSE (IF Head(officers).Age # << >> THEN 1 ELSE 0) + AgeCnt(Tail(officers))

\* The average with the officers without an age counted as age 0.
AvgOverAll(officers) ==
  IF Len(officers) > 0
  THEN <<[num |-> AgeSum(officers), den |-> Len(officers)]>> ELSE << >>
\* f.AvgOfficerAge: float64(ageSum) / float64(ageCnt) when ageCnt > 0.
AvgAge(officers) ==
  IF AgeCnt(officers) > 0
  THEN <<[num |-> AgeSum(officers), den |-> AgeCnt(officers)]>> ELSE << >>

\* The officer members of the Fundamentals YFService.Get decodes from the
\* companyOfficers of an assetProfile.
DecodeOfficers(officers) ==
  LET b == BestIdx(officers) IN
    [ZeroFundamentals EXCEPT
       !.OfficersCount = Len(officers),
       !.CEOName = IF b > 0 THEN normalizeSpace(officers[b].Name) ELSE << >>,
       !.CEOTitle = IF b > 0 THEN normalizeSpace(officers[b].Title) ELSE << >>,
       !.CEOAge = IF b > 0 THEN officers[b].Age ELSE << >>,
       !.AvgOfficerAge = AvgAge(officers)]

\* A QuoteService that answers with the Fundamentals decoded from a roster.
RosterGet(officers) == [q |-> SomeQuote, f |-> DecodeOfficers(officers), err |-> Nil]

\* need & flag != 0 for a flag that is one bit.
HasFlag(n, flag) == (n \div flag) % 2 = 1

\* The modules YFService.Get asks upstream for: price always, assetProfile
\* for NeedAssetProfile and for the legacy NeedIndustry.
Modules(n) ==
  <<"price">> \o (IF HasFlag(n, NeedAssetProfile) \/ HasFlag(n, NeedIndustry)
                  THEN <<"assetProfile">> ELSE << >>)

\* The assetProfile of an upstream answer without its officers, empty.
NoProfile ==
  [Sector |-> << >>, Industry |-> << >>, FullTimeEmployees |-> 0,
   City |-> << >>, Country |-> << >>, Phone |-> << >>, Website |-> << >>,
   IrWebsite |-> << >>]

\* DecodeProfile that decodes the assetProfile whatever the need.
DecodeProfileAnyNeed(n, ap, officers) ==
  [DecodeOfficers(officers) EXCEPT
     !.Sector = ap.Sector, !.Industry = ap.Industry,
     !.Employees = ap.FullTimeEmployees, !.City = ap.City,
     !.Country = ap.Country, !.Phone = ap.Phone, !.Website = ap.Website,
     !.IR = ap.IrWebsite]
\* The Fundamentals YFService.Get builds for the need n from an assetProfile
\* ap and its officers.
DecodeProfile(n, ap, officers) ==
  IF HasFlag(n, NeedAssetProfile) \/ HasFlag(n, NeedIndustry)
  THEN [DecodeOfficers(officers) EXCEPT
          !.Sector = ap.Sector,
          !.Industry = ap.Industry,
          !.Employees = IF ap.FullTimeEmployees > 0 THEN ap.FullTimeEmployees ELSE 0,
          !.City = ap.City,
          !.Country = ap.Country,
          !.Phone = ap.Phone,
          !.Website = ap.Website,
          !.IR = ap.IrWebsite]
  ELSE ZeroFundamentals

\* YFService.Get(sym, need) with what it asks upstream: up is the number of
\* requests, mods the modules of the request, and resp the answer with the
\* assetProfile ap and its officers.
YFServiceGetProfile(sy, n, resp, ap, officers) ==
  IF sy = EmptySym
    THEN [f |-> ZeroFundamentals, err |-> Nil, up |-> 0, mods |-> << >>]
  ELSE IF resp.kind = "error"
    THEN [f |-> ZeroFundamentals, err |-> ErrUpstream, up |-> 1, mods |-> Modules(n)]
  ELSE IF resp.kind = "noprice"
    THEN [f |-> ZeroFundamentals, err |-> ErrNoPrice, up |-> 1, mods |-> Modules(n)]
  ELSE [f |-> DecodeProfile(n, ap, officers), err |-> Nil, up |-> 1,
        mods |-> Modules(n)]

\* render.ceoFromRaw on a roster whose officers carry an "age" entry exactly
\* when their age is set.
ceoFromRaw(officers) ==
  IF Len(officers) = 0 THEN << >>
  ELSE LET m == {i \in 1..Len(officers) : IsChiefTitle(officers[i].Title)}
           b == IF m # {} THEN CHOOSE i \in m : \A j \in m : i <= j ELSE 1
           o == officers[b]
           base == TrimSpace(o.Name)
           titled == IF o.Title # << >> THEN TrimSpace(base \o EmDashSep \o o.Title)
                     ELSE base
       IN titled \o (IF o.Age # << >> THEN AgeSuffix(o.Age[1]) ELSE << >>)

\* The officers the upstream rosters are made of.
Officer ==
  [A |-> [Name |-> <<"A">>, Title |-> <<"V", "P">>, Age |-> << >>],
   B |-> [Name |-> <<"B">>, Title |-> <<"C", "h", "i", "e", "f", " ", "E", "x", "e", "c", "u", "t", "i", "v", "e", " ", "O", "f", "f", "i", "c", "e", "r">>, Age |-> << >>],
   C |-> [Name |-> <<"C">>, Title |-> <<"C", "o", "-", "C", "E", "O">>, Age |-> <<50>>],
   D |-> [Name |-> <<"D", " ", " ", "E">>, Title |-> <<" ", "P", "r", "e", "s", "i", "d", "e", "n", "t", " ">>, Age |-> <<30>>],
   E |-> [Name |-> <<"E">>, Title |-> <<>>, Age |-> <<45>>],
   G |-> [Name |-> << >>, Title |-> <<"C", "E", "O">>, Age |-> <<61>>],
   H |-> [Name |-> << >>, Title |-> << >>, Age |-> <<70>>],
   I |-> [Name |-> <<"I">>, Title |-> << >>, Age |-> << >>],
   J |-> [Name |-> << >>, Title |-> <<"P", "r", "e", "s", "i", "d", "e", "n", "t">>, Age |-> << >>],
   F |-> [Name |-> <<"F">>, Title |-> <<"R", "e", "p", "r", "e", "s", "e", "n", "t", "a", "t", "i", "v", "e", " ", "D", "i", "r", "e", "c", "t", "o", "r">>, Age |-> << >>]]
OfficerPool == {Officer[x] : x \in DOMAIN Officer}

\* ---------------------------------------------------------- QuoteService
\* A QuoteService as the resolvers see it: "ok" answers every Get with
\* values, "err" fails with zero values (as YFService and CacheService do),
\* "errvals" fails and hands out values along with its error, "yf"
\* answers with what YFService.Get decodes from a roster of officers, and
\* "profile" with what it decodes from an assetProfile.
Stub(kind) == [kind |-> kind, officers |-> << >>, ap |-> NoProfile]
YFStub(officers) == [kind |-> "yf", officers |-> officers, ap |-> NoProfile]
\* A YFService whose upstream answers with the assetProfile ap.
ProfileStub(ap) == [kind |-> "profile", officers |-> << >>, ap |-> ap]
Services == {Stub("ok"), Stub("err"), Stub("errvals")}
QuotesGet(s, sy, n) ==
  LET \* the quote of a symbol: B is falling, the others rise
      quote == IF sy = <<"B">>
               THEN [SomeQuote EXCEPT !.ChgFmt = <<"-", "2", "%">>, !.ChgRaw = -2]
               ELSE SomeQuote
  IN IF s.kind = "ok"
       THEN [q |-> quote, f |-> SomeFundamentals, err |-> Nil]
     ELSE IF s.kind = "err"
       THEN [q |-> ZeroQuoteVal, f |-> ZeroFundamentals, err |-> ErrUpstream]
     ELSE IF s.kind = "errvals"
       THEN [q |-> SomeQuote, f |-> SomeFundamentals, err |-> ErrUpstream]
     ELSE IF s.kind = "profile"
       THEN [q |-> quote, f |-> DecodeProfile(n, s.ap, s.officers), err |-> Nil]
     ELSE RosterGet(s.officers)

\* ------------------------------------------------------ derived columns
\* strings.HasPrefix and strings.TrimPrefix
HasPrefix(s, p) == Len(s) >= Len(p) /\ SubSeq(s, 1, Len(p)) = p
TrimPrefix(s, p) == IF HasPrefix(s, p) THEN SubSeq(s, Len(p) + 1, Len(s)) ELSE s

\* columns.filterNonEmpty(parts, sep): the trimmed parts that are not empty.
filterNonEmpty(parts) ==
  SelectSeq([i \in 1..Len(parts) |-> TrimSpace(parts[i])], LAMBDA p : p # << >>)

\* columns.firstNonEmpty(a, b)
firstNonEmpty(a, b) ==
  IF TrimSpace(a) # << >> THEN a ELSE IF TrimSpace(b) # << >> THEN b ELSE << >>

\* The Host of url.Parse(u) for a string made of an optional scheme with
\* "//", a host and an optional path: the part between "//" and the next
\* "/"; a string without a scheme has no Host, all of it is path.
urlHost(u) ==
  LET rest == IF HasPrefix(u, <<"h", "t", "t", "p", "s", ":", "/", "/">>) THEN TrimPrefix(u, <<"h", "t", "t", "p", "s", ":", "/", "/">>)
              ELSE IF HasPrefix(u, <<"h", "t", "t", "p", ":", "/", "/">>) THEN TrimPrefix(u, <<"h", "t", "t", "p", ":", "/", "/">>)
              ELSE << >>
  IN IF \E i \in 1..Len(rest) : rest[i] = "/"
     THEN SubSeq(rest, 1, (CHOOSE i \in 1..Len(rest) :
                            rest[i] = "/" /\ \A j \in 1..(i - 1) : rest[j] # "/") - 1)
     ELSE rest

\* columns.hostOnly(u)
hostOnly(u) ==
  IF u = << >> THEN << >>
  ELSE IF urlHost(u) = << >>
    THEN IF Contains(u, <<"/">>) THEN TrimSpace(u)
         ELSE TrimPrefix(TrimPrefix(u, <<"h", "t", "t", "p", "s", ":", "/", "/">>), <<"h", "t", "t", "p", ":", "/", "/">>)
  ELSE TrimPrefix(urlHost(u), <<"w", "w", "w", ".">>)

\* The separator of the hq column: the middle dot (U+00B7), written here as
\* one element of its own, between two spaces.
MidDotSep == <<" ", "middot", " ">>

\* Registry["hq"] on the Fundamentals f.
hqColumn(f) ==
  LET loc == TrimSpace(Join(filterNonEmpty(<<f.City, f.Country>>), <<",", " ">>))
      host == hostOnly(firstNonEmpty(f.IR, f.Website))
      parts == (IF loc # << >> THEN <<loc>> ELSE << >>)
                 \o (IF f.Phone # << >> THEN <<f.Phone>> ELSE << >>)
                 \o (IF host # << >> THEN <<host>> ELSE << >>)
  IN Join(parts, MidDotSep)

\* The ceo column without its test for an officer with neither name nor title.
ceoColumnNoEmptyTest(f) ==
  LET base == TrimSpace(f.CEOName)
      titled == IF f.CEOTitle # << >>
                THEN TrimSpace(base \o EmDashSep \o f.CEOTitle) ELSE base
  IN IF f.CEOAge # << >> THEN titled \o AgeSuffix(f.CEOAge[1]) ELSE titled
\* Registry["ceo"] on the Fundamentals f.
ceoColumn(f) ==
  IF f.CEOName = << >> /\ f.CEOTitle = << >> THEN << >>
  ELSE LET base == TrimSpace(f.CEOName)
           titled == IF f.CEOTitle # << >>
                     THEN TrimSpace(base \o EmDashSep \o f.CEOTitle) ELSE base
       IN IF f.CEOAge # << >> THEN titled \o AgeSuffix(f.CEOAge[1]) ELSE titled

\* ---------------------------------------------------------------- Registry
\* The keys of columns.Registry that are modelled: the local columns, the
\* quote columns, and columns of each module, with every derived column that
\* formats a number or the officers.
Registry ==
  {Col.sym, Col.name, Col.price, Col.chgpct, Col.sector, Col.industry,
   Col.employees, Col.officers_count, Col.avg_officer_age, Col.ceo, Col.hq,
   Col.roepct, Col.pe, Col.beta, Col.mktcap, Col.marketcap, Col.MarketCap,
   Col.market_cap, Col.div_rate, Col.div_yieldpct}

\* What a resolver returns: the string, the error, and the need masks of the
\* Gets it made.
Resolved(str, reqs) == [s |-> str, err |-> Nil, req |-> reqs]

\* Registry[c](ctx, it, s) for a key c of Registry.
Resolver(c, it, s) ==
  IF c = Col.sym THEN Resolved(it.Sym, << >>)
  ELSE IF c = Col.name THEN
    IF it.Name # << >> THEN Resolved(it.Name, << >>)
    ELSE LET g == QuotesGet(s, it.Sym, BitOr(NeedPrice, NeedChgPct)) IN
           Resolved(IF g.err # Nil THEN << >> ELSE g.q.Name,
                    <<BitOr(NeedPrice, NeedChgPct)>>)
  ELSE IF c = Col.price THEN
    LET g == QuotesGet(s, it.Sym, NeedPrice) IN
      Resolved(IF g.err # Nil THEN << >> ELSE g.q.Price, <<NeedPrice>>)
  ELSE IF c = Col.chgpct THEN
    LET g == QuotesGet(s, it.Sym, NeedChgPct) IN
      Resolved(IF g.err # Nil THEN << >> ELSE g.q.ChgFmt, <<NeedChgPct>>)
  ELSE IF c \in {Col.sector, Col.industry, Col.employees, Col.officers_count,
                   Col.avg_officer_age, Col.ceo, Col.hq} THEN
    LET f == QuotesGet(s, it.Sym, NeedAssetProfile).f IN
      Resolved(
        IF c = Col.sector THEN f.Sector
        ELSE IF c = Col.industry THEN f.Industry
        ELSE IF c = Col.employees THEN
          (IF f.Employees = 0 THEN << >> ELSE formatIntComma(f.Employees))
        ELSE IF c = Col.officers_count THEN
          (IF f.OfficersCount = 0 THEN << >> ELSE formatIntComma(f.OfficersCount))
        ELSE IF c = Col.avg_officer_age THEN
          (IF f.AvgOfficerAge = << >> THEN << >>
           ELSE formatFloatComma(f.AvgOfficerAge[1].num, f.AvgOfficerAge[1].den))
        ELSE IF c = Col.hq THEN hqColumn(f)
        ELSE ceoColumn(f),
        <<NeedAssetProfile>>)
  ELSE IF c = Col.roepct THEN
    Resolved(QuotesGet(s, it.Sym, NeedFinancialData).f.ReturnOnEquity,
             <<NeedFinancialData>>)
  ELSE \* the summaryDetail columns
    LET f == QuotesGet(s, it.Sym, NeedSummaryDetail).f IN
      Resolved(
        IF c \in {Col.mktcap, Col.marketcap, Col.MarketCap, Col.market_cap}
          THEN f.MarketCap
        ELSE IF c = Col.beta THEN f.Beta
        ELSE IF c = Col.div_yieldpct THEN f.DividendYield
        ELSE IF c = Col.div_rate THEN f.DividendRate
        ELSE f.TrailingPE,
        <<NeedSummaryDetail>>)

\* RenderValue without the fallback to the item's fields.
RenderValueNoFallback(col, it, s) ==
  IF col \in Registry THEN Resolver(col, it, s)
  ELSE IF Canonical(col) \in Registry THEN Resolver(Canonical(col), it, s)
  ELSE Resolved(<< >>, << >>)
\* columns.RenderValue(ctx, col, it, s)
RenderValue(col, it, s) ==
  IF col \in Registry THEN Resolver(col, it, s)
  ELSE IF Canonical(col) \in Registry THEN Resolver(Canonical(col), it, s)
  ELSE IF col \in DOMAIN it.Fields /\ it.Fields[col] # NilVal
    THEN Resolved(Sprint(it.Fields[col]), << >>)
  ELSE Resolved(<< >>, << >>)


\* ------------------------------------------------- table renderer, sorting
\* The table renderer's view of one item when the upstream request for it
\* failed (raw = nil): every columns.Extract finds nothing, so each value
\* comes from the item itself.

\* columns.Canonical(col) as the renderer uses it: the canonical key of a
\* catalog column, the name as given for any other column.
CanonicalKey(col) == IF Canonical(col) \in Registry THEN Canonical(col) ELSE col

\* renderFromRaw(key, it, nil): the strings a call can return. Where several
\* non-nil fields differ from the key in case only and none is the key
\* itself, the loop over the map returns the one it meets first, which is
\* any of them.
renderFromRaw(ckey, it) ==
  IF ckey = Col.sym THEN {it.Sym}
  ELSE IF ckey = Col.name THEN {it.Name}
  ELSE IF ckey \in {Col.avg_officer_age, Col.hq, Col.ceo} THEN {<< >>}
  ELSE IF ckey \in DOMAIN it.Fields /\ it.Fields[ckey] # NilVal
    THEN {TrimSpace(Sprint(it.Fields[ckey]))}
  ELSE LET folding == {f \in DOMAIN it.Fields :
                         ToLower(f) = ToLower(ckey) /\ it.Fields[f] # NilVal}
       IN IF folding = {} THEN {<< >>}
          ELSE {TrimSpace(Sprint(it.Fields[f])) : f \in folding}

\* A natural number of any size is the sequence of its digits in base 2^15,
\* lowest first, without leading zeros: zero is << >>, 5 is <<5>> and 2^15
\* is <<0, 1>>.

\* x without the zeros at its end.
BigTrim(x) ==
  SubSeq(x, 1, CHOOSE n \in 0..Len(x) :
                 (n = 0 \/ x[n] # 0) /\ \A i \in (n + 1)..Len(x) : x[i] = 0)

RECURSIVE BigScan(_, _, _, _, _)
\* The digits lo..hi of x taken in turn through Step, which makes of a digit
\* and the carry that comes in a digit d and the carry c that goes on: the
\* digits that come out and the last carry. The range is done in halves.
BigScan(Step(_, _), x, c, lo, hi) ==
  LET one(r) == [d |-> <<r.d>>, c |-> r.c]
      cat(l, u) == [d |-> l.d \o u.d, c |-> u.c]
      upper(l, mid) == cat(l, BigScan(Step, x, l.c, mid + 1, hi))
  IN IF lo > hi THEN [d |-> << >>, c |-> c]
     ELSE IF lo = hi THEN one(Step(x[lo], c))
     ELSE upper(BigScan(Step, x, c, lo, (lo + hi) \div 2), (lo + hi) \div 2)

\* x * c + carry for a natural x and c, carry below 2^15 (c at least 1).
BigMul(x, c, carry) ==
  LET out(r) == r.d \o (IF r.c = 0 THEN << >> ELSE <<r.c>>)
  IN out(BigScan(LAMBDA h, cc : [d |-> (h * c + cc) % 32768,
                                 c |-> (h * c + cc) \div 32768],
                 x, carry, 1, Len(x)))

\* x + y on naturals.
BigAdd(x, y) ==
  LET out(r) == r.d \o (IF r.c = 0 THEN << >> ELSE <<r.c>>)
      n == IF Len(x) > Len(y) THEN Len(x) ELSE Len(y)
  IN out(BigScan(LAMBDA h, cc : [d |-> (h + cc) % 32768, c |-> (h + cc) \div 32768],
                 [i \in 1..n |-> (IF i <= Len(x) THEN x[i] ELSE 0)
                                   + (IF i <= Len(y) THEN y[i] ELSE 0)],
                 0, 1, n))

\* The quotient q and the remainder r of a natural x by d, for d up to 2^15:
\* the digits are divided from the highest down, the remainder going on.
BigDiv(x, d) ==
  LET out(res) ==
        [q |-> BigTrim([i \in 1..Len(x) |-> res.d[Len(x) + 1 - i]]), r |-> res.c]
  IN out(BigScan(LAMBDA h, rr : [d |-> (rr * 32768 + h) \div d,
                                 c |-> (rr * 32768 + h) % d],
                 [i \in 1..Len(x) |-> x[Len(x) + 1 - i]], 0, 1, Len(x)))

\* The number of binary digits of a natural x.
BigBits(x) ==
  IF x = << >> THEN 0
  ELSE 15 * (Len(x) - 1)
         + (CHOOSE b \in 1..15 : 2 ^ (b - 1) <= x[Len(x)] /\ x[Len(x)] < 2 ^ b)

\* Is the binary digit n of x, the lowest being digit 0, a one?
BigBit(x, n) ==
  n \div 15 < Len(x) /\ (x[n \div 15 + 1] \div (2 ^ (n % 15))) % 2 = 1

\* Is one of the n lowest binary digits of x a one?
BigLow(x, n) ==
  \E i \in 1..Len(x) :
    \/ i <= n \div 15 /\ x[i] # 0
    \/ i = n \div 15 + 1 /\ x[i] % (2 ^ (n % 15)) # 0

\* x < y on naturals.
BigLess(x, y) ==
  IF Len(x) # Len(y) THEN Len(x) < Len(y)
  ELSE \E i \in 1..Len(x) : x[i] < y[i] /\ \A j \in (i + 1)..Len(x) : x[j] = y[j]

\* x * 2^s for a natural x.
BigShl(x, s) ==
  LET digit(i) == IF 1 <= i /\ i <= Len(x) THEN x[i] * (2 ^ (s % 15)) ELSE 0
  IN BigTrim([i \in 1..(Len(x) + s \div 15 + 1) |->
                (digit(i - s \div 15) % 32768)
                  + (digit(i - s \div 15 - 1) \div 32768)])

\* The whole part of x / 2^s for a natural x.
BigShr(x, s) ==
  LET digit(i) == IF i <= Len(x) THEN x[i] ELSE 0
  IN BigTrim([i \in 1..(Len(x) - s \div 15) |->
                (digit(i + s \div 15) \div (2 ^ (s % 15)))
                  + (digit(i + s \div 15 + 1) % (2 ^ (s % 15))) * (2 ^ (15 - (s % 15)))])

RECURSIVE BigTimesPow5(_, _)
\* x * 5^k for a natural x: six powers at a time, a longer run in halves.
BigTimesPow5(x, k) ==
  IF x = << >> \/ k = 0 THEN x
  ELSE IF k <= 6 THEN BigMul(x, 5 ^ k, 0)
  ELSE BigTimesPow5(BigTimesPow5(x, k \div 2), k - k \div 2)

RECURSIVE BigOverPow5(_, _)
\* The whole part q of x / 5^k for a natural x, and whether a fraction is
\* left over (sticky): six powers at a time, a longer run in halves.
BigOverPow5(x, k) ==
  LET one(qr) == [q |-> qr.q, sticky |-> qr.r # 0]
      into(res, st) == [q |-> res.q, sticky |-> res.sticky \/ st]
      second(first, rest) == into(BigOverPow5(first.q, rest), first.sticky)
  IN IF x = << >> \/ k = 0 THEN [q |-> x, sticky |-> FALSE]
     ELSE IF k <= 6 THEN one(BigDiv(x, 5 ^ k))
     ELSE second(BigOverPow5(x, k \div 2), k - k \div 2)

\* A float64 is written in binary: [k |-> "num", neg, m, e] stands for
\* (-1)^neg * m * 2^e with m an odd natural below 2^53 and e at least -1074
\* (zero is m = << >>, e = 0; the zeros of the two signs, which compare
\* equal, are one record), [k |-> "inf"] with neg for the two infinities and
\* [k |-> "nan"] for NaN. 1.5 is m = <<3>>, e = -1 and 10 is m = <<5>>,
\* e = 1. Two numbers are == as float64 exactly when their records are equal.
FloatZero == [k |-> "num", neg |-> FALSE, m |-> << >>, e |-> 0]

\* The float64 m * 2^e for a natural m of at most 53 binary digits, the
\* lowest at 2^-1074 or above: the zeros at the low end of m go to the
\* exponent. A value of 2^1024 or more is an infinity.
FloatOf(neg, m, e) ==
  LET odd(tz) == [k |-> "num", neg |-> neg, m |-> BigShr(m, tz), e |-> e + tz]
  IN IF m = << >> THEN FloatZero
     ELSE IF BigBits(m) + e > 1024
       THEN [k |-> "inf", neg |-> neg, m |-> << >>, e |-> 0]
     ELSE odd(CHOOSE n \in 0..(15 * Len(m)) : BigBit(m, n) /\ ~BigLow(m, n))

\* The float64 nearest to (x + f) * 2^e for a natural x and a fraction f
\* below 1 that is not zero exactly when sticky (x has 64 binary digits or
\* more then): the value is rounded to 53 binary digits, or to a multiple
\* of 2^-1074 where that is coarser, a tie going to the even neighbour.
Round(neg, x, e, sticky) ==
  LET bits == BigBits(x)
      \* the exponent of the last binary digit kept, and the number of
      \* binary digits of x below it
      ulp == IF e + bits - 53 > -1074 THEN e + bits - 53 ELSE -1074
      sh == ulp - e
      \* more than half of the last digit is cut off, or half of it and the
      \* last digit is odd
      up(m) == BigBit(x, sh - 1) /\ (sticky \/ BigLow(x, sh - 1) \/ BigBit(m, 0))
      rounded(m) == FloatOf(neg, IF up(m) THEN BigMul(m, 1, 1) ELSE m, ulp)
  IN IF x = << >> THEN FloatZero
     ELSE IF sh <= 0 THEN FloatOf(neg, x, e)
     ELSE IF sh > bits + 1 THEN FloatZero
     ELSE rounded(BigShr(x, sh))

\* The float64 nearest to x * 10^e for a natural x. A value of 10^311 or
\* more is an infinity and one below 10^-330 is zero, whatever its digits;
\* else x * 5^e * 2^e is rounded, a quotient by 5^-e being taken to 64
\* binary digits or more.
Float(neg, x, e) ==
  LET bits == BigBits(x)
      rounded(sc, two) == Round(neg, sc.q, two, sc.sticky)
  IN IF x = << >> THEN FloatZero
     ELSE IF ((bits - 1) * 3) \div 10 + e > 310
       THEN [k |-> "inf", neg |-> neg, m |-> << >>, e |-> 0]
     ELSE IF (bits * 31) \div 100 + 1 + e < -330 THEN FloatZero
     ELSE rounded(IF e >= 0 THEN [q |-> BigTimesPow5(x, e), sticky |-> FALSE]
                  ELSE BigOverPow5(BigShl(x, 64 - 3 * e), 0 - e),
                  IF e >= 0 THEN e ELSE 4 * e - 64)

\* a * 10^j for a float64 a, as float64 multiplies: the exact product is
\* rounded once more.
FloatTimesPow10(a, j) ==
  IF a.k # "num" THEN a
  ELSE IF a.m = << >> THEN FloatZero
  ELSE Round(a.neg, BigTimesPow5(a.m, j), a.e + j, FALSE)

\* a < b on float64: false whenever one of the two is NaN.
FloatLess(a, b) ==
  LET sign(x) == IF x.k = "num" /\ x.m = << >> THEN 0 ELSE IF x.neg THEN -1 ELSE 1
      aligned(x, y, tx, ty) ==
        IF tx # ty THEN tx < ty
        ELSE IF x.e >= y.e THEN BigLess(BigShl(x.m, x.e - y.e), y.m)
        ELSE BigLess(x.m, BigShl(y.m, y.e - x.e))
      \* x is nearer to zero than y
      smaller(x, y) ==
        IF x.k = "inf" THEN FALSE
        ELSE IF y.k = "inf" THEN TRUE
        ELSE aligned(x, y, BigBits(x.m) + x.e, BigBits(y.m) + y.e)
      signed(sa, sb) ==
        IF sa # sb THEN sa < sb
        ELSE IF sa = 0 THEN FALSE
        ELSE smaller(IF sa = 1 THEN a ELSE b, IF sa = 1 THEN b ELSE a)
  IN IF a.k = "nan" \/ b.k = "nan" THEN FALSE ELSE signed(sign(a), sign(b))

\* The value of one digit, in base 10 or 16.
DigitVal(c) ==
  CHOOSE d \in 0..15 :
    <<"0", "1", "2", "3", "4", "5", "6", "7", "8", "9",
      "a", "b", "c", "d", "e", "f">>[d + 1] = LowerChar(c)

RECURSIVE DigitsVal(_, _)
\* The natural a string of digits stands for in base 10 or 16: the value
\* of its first half, times the base once for every digit of the second
\* half, plus the value of the second half.
DigitsVal(s, base) ==
  LET raised(x, n) ==
        IF base = 16 THEN BigShl(x, 4 * n) ELSE BigShl(BigTimesPow5(x, n), n)
      halves(x, y, n) == IF x = << >> THEN y ELSE BigAdd(raised(x, n), y)
  IN IF s = << >> THEN << >>
     ELSE IF Len(s) = 1 THEN (IF DigitVal(s[1]) = 0 THEN << >> ELSE <<DigitVal(s[1])>>)
     ELSE halves(DigitsVal(SubSeq(s, 1, Len(s) \div 2), base),
                 DigitsVal(SubSeq(s, Len(s) \div 2 + 1, Len(s)), base),
                 Len(s) - Len(s) \div 2)

\* strconv.readFloat on a literal without its sign: a decimal or hexadecimal
\* literal -- digits with at most one dot, an exponent after e (after p,
\* and required, for the hexadecimal form), underscores between digits --
\* gives the digits of the mantissa and the exponent exp of the base they
\* are to be multiplied with once more: 2 for the hexadecimal form, else 10.
readFloat(body) ==
  LET fail == [ok |-> FALSE, hex |-> FALSE, digits |-> << >>, exp |-> 0]
      isDigit(hex, c) ==
        \/ c \in {"0", "1", "2", "3", "4", "5", "6", "7", "8", "9"}
        \/ hex /\ c \in {"a", "b", "c", "d", "e", "f", "A", "B", "C", "D", "E", "F"}
      \* the exponent is read digit by digit while it is below 10000: its
      \* first five digits after the leading zeros count, the rest is skipped
      capped(hex, ip, fp, exNeg, v) ==
        [ok |-> TRUE, hex |-> hex, digits |-> ip \o fp,
         exp |-> (IF exNeg THEN -1 ELSE 1)
                   * (IF v = << >> THEN 0 ELSE IF Len(v) = 1 THEN v[1]
                      ELSE v[1] + 32768 * v[2])
                   - (IF hex THEN 4 ELSE 1) * Len(fp)]
      leading(hex, ip, fp, exNeg, exDigits, z) ==
        capped(hex, ip, fp, exNeg,
               DigitsVal(SubSeq(exDigits, z + 1,
                                IF z + 5 < Len(exDigits) THEN z + 5 ELSE Len(exDigits)),
                         10))
      \* the exponent with its sign taken off
      exponent(hex, ip, fp, hasExp, exNeg, exDigits) ==
        IF \/ Len(ip) + Len(fp) = 0
           \/ \E i \in 1..Len(ip) : ~isDigit(hex, ip[i])
           \/ \E i \in 1..Len(fp) : ~isDigit(hex, fp[i])
           \/ hex /\ ~hasExp
           \/ hasExp /\ exDigits = << >>
           \/ \E i \in 1..Len(exDigits) : ~isDigit(FALSE, exDigits[i])
        THEN fail
        ELSE leading(hex, ip, fp, exNeg, exDigits,
                     CHOOSE z \in 0..Len(exDigits) :
                       /\ \A i \in 1..z : exDigits[i] = "0"
                       /\ z = Len(exDigits) \/ exDigits[z + 1] # "0")
      \* the mantissa cut at its first dot, if it has one
      dotted(hex, mant, hasExp, ex, dotAt) ==
        exponent(hex,
                 IF dotAt = 0 THEN mant ELSE SubSeq(mant, 1, dotAt - 1),
                 IF dotAt = 0 THEN << >> ELSE SubSeq(mant, dotAt + 1, Len(mant)),
                 hasExp, ex # << >> /\ ex[1] = "-",
                 IF ex # << >> /\ ex[1] \in {"+", "-"} THEN Tail(ex) ELSE ex)
      mantissa(hex, mant, hasExp, ex) ==
        dotted(hex, mant, hasExp, ex,
               IF \E i \in 1..Len(mant) : mant[i] = "."
               THEN CHOOSE i \in 1..Len(mant) :
                      mant[i] = "." /\ \A j \in 1..(i - 1) : mant[j] # "."
               ELSE 0)
      \* the literal cut at its first exponent character, if it has one
      cut(hex, num, expAt) ==
        mantissa(hex,
                 IF expAt = 0 THEN num ELSE SubSeq(num, 1, expAt - 1),
                 expAt # 0,
                 IF expAt = 0 THEN << >> ELSE SubSeq(num, expAt + 1, Len(num)))
      literal(hex, num, expChar) ==
        cut(hex, num,
            IF \E i \in 1..Len(num) : LowerChar(num[i]) = expChar
            THEN CHOOSE i \in 1..Len(num) :
                   /\ LowerChar(num[i]) = expChar
                   /\ \A j \in 1..(i - 1) : LowerChar(num[j]) # expChar
            ELSE 0)
      \* every underscore stands between two digits, or after the prefix 0x
      based(hex) ==
        IF \E i \in 1..Len(body) :
             /\ body[i] = "_"
             /\ \/ i = 1 \/ i = Len(body)
                \/ ~(isDigit(hex, body[i - 1]) \/ (hex /\ i = 3))
                \/ ~isDigit(hex, body[i + 1])
        THEN fail
        ELSE literal(hex,
                     SelectSeq(IF hex THEN SubSeq(body, 3, Len(body)) ELSE body,
                               LAMBDA c : c # "_"),
                     IF hex THEN "p" ELSE "e")
  IN based(Len(body) >= 3 /\ body[1] = "0" /\ body[2] \in {"x", "X"})

\* strconv.ParseFloat(s, 64): "nan", a signed or unsigned "inf" or
\* "infinity" (in any case), or a signed or unsigned literal, whose value
\* is the float64 nearest to it. A value out of range is an error.
ParseFloat(s) ==
  LET fail == [ok |-> FALSE, f |-> FloatZero]
      neg == s # << >> /\ s[1] = "-"
      body == IF s # << >> /\ s[1] \in {"+", "-"} THEN Tail(s) ELSE s
      result(v) == IF v.k = "inf" THEN fail ELSE [ok |-> TRUE, f |-> v]
      made(p) ==
        IF ~p.ok THEN fail
        ELSE result(IF p.hex THEN Round(neg, DigitsVal(p.digits, 16), p.exp, FALSE)
                    ELSE Float(neg, DigitsVal(p.digits, 10), p.exp))
  IN IF ToLower(s) = <<"n", "a", "n">>
       THEN [ok |-> TRUE, f |-> [k |-> "nan", neg |-> FALSE, m |-> << >>, e |-> 0]]
     ELSE IF ToLower(body) \in {<<"i", "n", "f">>,
                                <<"i", "n", "f", "i", "n", "i", "t", "y">>}
       THEN [ok |-> TRUE, f |-> [k |-> "inf", neg |-> neg, m |-> << >>, e |-> 0]]
     ELSE made(readFloat(body))

\* parseFloatStrict(s)
parseFloatStrict(s) == ParseFloat(TrimSpace(s))

\* parseFormattedNumber(s): parentheses negate, every character but digits,
\* signs, dot, percent and the K/M/B/T suffixes is dropped, then a trailing
\* percent sign and a trailing multiplier are taken off and the rest is
\* parsed and multiplied.
parseFormattedNumber(s) ==
  LET fail == [ok |-> FALSE, f |-> FloatZero]
      \* the multiplier is 10^mult
      suffixed(neg, u, mult) ==
        [ok |-> TRUE, neg |-> neg, mult |-> mult,
         u |-> IF mult = 0 THEN u ELSE SubSeq(u, 1, Len(u) - 1)]
      multiplied(neg, u, last) ==
        suffixed(neg, u, IF last \in {"K", "k"} THEN 3
                         ELSE IF last \in {"M", "m"} THEN 6
                         ELSE IF last \in {"B", "b"} THEN 9
                         ELSE IF last \in {"T", "t"} THEN 12
                         ELSE 0)
      percent(neg, u) == multiplied(neg, u, IF u = << >> THEN "" ELSE u[Len(u)])
      kept(neg, cleaned) ==
        IF cleaned = << >> THEN [ok |-> FALSE, neg |-> neg, mult |-> 0, u |-> << >>]
        ELSE percent(neg, IF cleaned[Len(cleaned)] = "%"
                          THEN SubSeq(cleaned, 1, Len(cleaned) - 1) ELSE cleaned)
      inner(neg, t) ==
        kept(neg, SelectSeq(t, LAMBDA c :
                    c \in {"0", "1", "2", "3", "4", "5", "6", "7", "8", "9", ".", "-",
                           "+", "%", "K", "M", "B", "T", "k", "m", "b", "t"}))
      parenthesized(neg, t) ==
        inner(neg, IF neg THEN TrimSpace(SubSeq(t, 2, Len(t) - 1)) ELSE t)
      trimmed(t) == parenthesized(t # << >> /\ t[1] = "(" /\ t[Len(t)] = ")", t)
      \* parentheses change the sign of the number before it is multiplied
      times(neg, r, mult) ==
        IF ~r.ok THEN fail
        ELSE [ok |-> TRUE,
              f |-> FloatTimesPow10([r.f EXCEPT !.neg = (neg # r.f.neg)], mult)]
      parsed(p) == IF ~p.ok THEN fail ELSE times(p.neg, ParseFloat(p.u), p.mult)
  IN IF s = << >> THEN fail ELSE parsed(trimmed(TrimSpace(s)))

\* computeSortKey(col, it, nil): the keys a call can return, each the display
\* string and, where it can be read as a number, its value. The loop over
\* the fields stops at the first field that differs from the key in case
\* only, which is any of them.
computeSortKey(col, it) ==
  LET out(disp, num, hasNum, missing) ==
        [dispSort |-> disp, numSort |-> num, hasNum |-> hasNum, missing |-> missing]
      \* the display string d read as a formatted number, else the field
      \* met first read strictly, else that field read as a formatted number
      read(disp, d, fs, strict, formatted) ==
        IF d = << >> THEN out(disp, FloatZero, FALSE, TRUE)
        ELSE IF formatted[d].ok THEN out(disp, formatted[d].f, TRUE, FALSE)
        ELSE IF fs # << >> /\ strict.ok THEN out(disp, strict.f, TRUE, FALSE)
        ELSE IF fs # << >> /\ formatted[fs].ok THEN out(disp, formatted[fs].f, TRUE, FALSE)
        ELSE out(disp, FloatZero, FALSE, FALSE)
      keyOf(disp, fs) ==
        read(disp, TrimSpace(disp), fs, parseFloatStrict(fs),
             [x \in {TrimSpace(disp), fs} |-> parseFormattedNumber(x)])
      folding == {f \in DOMAIN it.Fields : ToLower(f) = ToLower(CanonicalKey(col))}
  IN {keyOf(disp, fs) :
        disp \in renderFromRaw(CanonicalKey(col), it),
        fs \in IF folding = {} THEN {<< >>}
               ELSE {TrimSpace(Sprint(it.Fields[f])) : f \in folding}}

\* The function Render hands to sort.SliceStable: is row a before row b?
rowLess(a, b, desc) ==
  IF a.missing /\ b.missing THEN FALSE
  ELSE IF a.missing THEN FALSE
  ELSE IF b.missing THEN TRUE
  ELSE IF a.hasNum /\ b.hasNum
    THEN LET equal == a.numSort.k # "nan" /\ a.numSort = b.numSort IN
         IF desc
         THEN IF equal THEN StrLess(b.dispSort, a.dispSort)
              ELSE FloatLess(b.numSort, a.numSort)
         ELSE IF equal THEN StrLess(a.dispSort, b.dispSort)
              ELSE FloatLess(a.numSort, b.numSort)
  ELSE LET ad == ToLower(a.dispSort)
           bd == ToLower(b.dispSort)
       IN IF desc
          THEN IF ad = bd THEN StrLess(b.dispSort, a.dispSort) ELSE StrLess(bd, ad)
          ELSE IF ad = bd THEN StrLess(a.dispSort, b.dispSort) ELSE StrLess(ad, bd)

RECURSIVE insertionSort(_, _, _, _)
\* sort.SliceStable on fewer than 20 rows is one insertion sort, started at
\* the second row: row i sinks (at j) while it is less than the row before.
insertionSort(rows, i, j, desc) ==
  IF i > Len(rows) THEN rows
  ELSE IF j > 1 /\ rowLess(rows[j], rows[j - 1], desc)
    THEN insertionSort([rows EXCEPT ![j] = rows[j - 1], ![j - 1] = rows[j]], i, j - 1, desc)
  ELSE insertionSort(rows, i + 1, i + 1, desc)

RECURSIVE RowsOf(_, _)
\* The rows Render can build for the items: each item with one of its keys.
RowsOf(col, its) ==
  IF its = << >> THEN {<< >>}
  ELSE {<<[it |-> Head(its)] @@ key1>> \o rest :
          key1 \in computeSortKey(col, Head(its)), rest \in RowsOf(col, Tail(its))}


\* ---------------------------------------------------------------- state
\* "no entry": the value of Get's local ent when the lookup found nothing.
NoEnt == [at |-> -1, q |-> ZeroQuote, fund |-> ZeroFund]

VARIABLES
  ttl,      \* c.ttl
  size,     \* c.size
  items,    \* c.items: key -> [at, q, fund]
  order,    \* c.order: oldest at index 1
  mu,       \* c.mu: 0 when free, else the goroutine that holds it
  now,      \* the clock
  pc,       \* where each goroutine is in Get
  sym,      \* Get's argument sym
  need,     \* Get's argument need
  k,        \* Get's local k
  tnow,     \* Get's local now
  seen,     \* Get's local ent (NoEnt when ok is false), live inside the
            \* first critical section only
  res,      \* Get's locals q, f, err; the returned values once pc = "done"
  calls,    \* calls of c.next.Get made by the goroutine's current Get
  upstream, \* upstream requests made for the goroutine's current call
  race,     \* history: the two goroutines' current Gets are for one key and
            \* each missed before the other inserted
  lru       \* history: the cached keys, least recently inserted or hit first

\* The column layer (package columns) and the officer decoding of
\* YFService.Get are pure functions: fn names the function last applied,
\* fin holds its arguments and fout its result.
VARIABLES fn, fin, fout

\* One run of Runner.Execute with the table renderer.
VARIABLES
  xpc,      \* where the run is: "idle", "render" or "done"
  xopts,    \* ExecuteOptions: PriceCacheTTL, PriceCacheSize, Color
  xsvc,     \* the service Execute holds in svc, the one the renderer holds,
            \* and the symbols upstream fails for
  xitems,   \* the items of the watchlist being rendered
  xcols,    \* the list's columns as Compute returned them
  xcell,    \* <<i, j>>: the next cell, item i and column j
  xreq,     \* the (sym, need) of every upstream request made, in order
  xrows     \* the rows rendered so far, each the values of its cells

colVars == <<fn, fin, fout>>
execVars == <<xpc, xopts, xsvc, xitems, xcols, xcell, xreq, xrows>>
getVars == <<ttl, size, items, order, mu, now, pc, sym, need, k, tnow, seen, res,
             calls, upstream, race, lru>>

vars == <<ttl, size, items, order, mu, now, pc, sym, need, k, tnow, seen, res,
          calls, upstream, race, lru, fn, fin, fout,
          xpc, xopts, xsvc, xitems, xcols, xcell, xreq, xrows>>

cfgVars == <<ttl, size>>
cacheVars == <<items, order, lru>>

\* Between the lookup that missed and the insert.
InWindow(p) == pc[p] \in {"miss", "infetch", "lock2"}

\* The arguments and the results of the functions of the column layer, each
\* at its place in one record; NoIn and NoOut hold nothing.
NoItem == [Sym |-> << >>, Name |-> << >>, Fields |-> << >>]
NoIn ==
  [explicit |-> << >>, items |-> << >>, cols |-> << >>, col |-> << >>,
   it |-> NoItem, s |-> Stub("none"), officers |-> << >>,
   ap |-> NoProfile, sym |-> EmptySym, need |-> NeedNone, resp |-> "none",
   desc |-> FALSE, rows |-> << >>]
NoOut ==
  [cols |-> << >>, need |-> NeedNone, r |-> Resolved(<< >>, << >>),
   f |-> ZeroFundamentals, ceo |-> << >>, avg |-> << >>, raw |-> << >>,
   get |-> [f |-> ZeroFundamentals, err |-> Nil, up |-> 0, mods |-> << >>],
   rows |-> << >>]

\* No function of the column layer has been applied yet.
ColsIdle == fn = "none" /\ fin = NoIn /\ fout = NoOut

\* Runner.Execute has not been called yet.
ExecIdle ==
  /\ xpc = "idle"
  /\ xopts = [PriceCacheTTL |-> 0, PriceCacheSize |-> 0, Color |-> FALSE,
              Columns |-> << >>]
  /\ xsvc = [svc |-> "none", renderer |-> "none", down |-> {}]
  /\ xitems = << >>
  /\ xcols = << >>
  /\ xcell = <<0, 0>>
  /\ xreq = << >>
  /\ xrows = << >>

\* NewCacheService(next, ttl, size): an empty map and an empty order list.
Init ==
  /\ ttl \in TTLs
  /\ size \in 0..MaxSize
  /\ items = << >>
  /\ order = << >>
  /\ mu = 0
  /\ now = 0
  /\ pc = [p \in Procs |-> "idle"]
  /\ sym = [p \in Procs |-> EmptySym]
  /\ need = [p \in Procs |-> NeedNone]
  /\ k = [p \in Procs |-> << >>]
  /\ tnow = [p \in Procs |-> 0]
  /\ seen = [p \in Procs |-> NoEnt]
  /\ res = [p \in Procs |-> ZeroRes]
  /\ calls = [p \in Procs |-> 0]
  /\ upstream = [p \in Procs |-> 0]
  /\ race = FALSE
  /\ lru = << >>
  /\ ColsIdle
  /\ ExecIdle

\* Get, lines 117-121: the empty-symbol return, else k and now are taken.
CallNoEmptyCheck(p, s, n) ==
  /\ pc[p] = "idle"
  /\ sym' = [sym EXCEPT ![p] = s]
  /\ need' = [need EXCEPT ![p] = n]
  /\ k' = [k EXCEPT ![p] = key(s, n)]
  /\ tnow' = [tnow EXCEPT ![p] = now]
  /\ pc' = [pc EXCEPT ![p] = "lock1"]
  /\ UNCHANGED <<colVars, execVars, cfgVars, cacheVars, mu, now, seen, res, calls, upstream, race>>
Call(p, s, n) ==
  /\ pc[p] = "idle"
  /\ sym' = [sym EXCEPT ![p] = s]
  /\ need' = [need EXCEPT ![p] = n]
  /\ IF s = EmptySym
     THEN /\ res' = [res EXCEPT ![p] = ZeroRes]
          /\ pc' = [pc EXCEPT ![p] = "done"]
          /\ UNCHANGED <<k, tnow>>
     ELSE /\ k' = [k EXCEPT ![p] = key(s, n)]
          /\ tnow' = [tnow EXCEPT ![p] = now]
          /\ pc' = [pc EXCEPT ![p] = "lock1"]
          /\ UNCHANGED res
  /\ UNCHANGED <<colVars, execVars, cfgVars, cacheVars, mu, now, seen, calls, upstream, race>>

\* Get, lines 122-134: c.mu.Lock() and the lookup. A live entry is touched
\* and its values taken; an expired one is dropped from the map and the list.
LockLookup(p) ==
  /\ pc[p] = "lock1"
  /\ mu = 0
  /\ mu' = p
  /\ IF k[p] \in DOMAIN items
     THEN /\ seen' = [seen EXCEPT ![p] = items[k[p]]]
          /\ IF Live(tnow[p], items[k[p]].at, ttl)
             THEN /\ order' = touchLocked(order, k[p])
                  /\ lru' = Append(removeFromOrderLocked(lru, k[p]), k[p])
                  /\ res' = [res EXCEPT ![p] =
                               [q |-> items[k[p]].q, f |-> items[k[p]].fund, err |-> Nil]]
                  /\ pc' = [pc EXCEPT ![p] = "hit"]
                  /\ UNCHANGED <<items, race>>
             ELSE /\ items' = MapDelete(items, k[p])
                  /\ order' = removeFromOrderLocked(order, k[p])
                  /\ lru' = removeFromOrderLocked(lru, k[p])
                  /\ pc' = [pc EXCEPT ![p] = "miss"]
                  /\ race' = (race \/ \E o \in Procs \ {p} : InWindow(o) /\ k[o] = k[p])
                  /\ UNCHANGED res
     ELSE /\ seen' = [seen EXCEPT ![p] = NoEnt]
          /\ pc' = [pc EXCEPT ![p] = "miss"]
          /\ race' = (race \/ \E o \in Procs \ {p} : InWindow(o) /\ k[o] = k[p])
          /\ UNCHANGED <<items, order, lru, res>>
  /\ UNCHANGED <<colVars, execVars, cfgVars, now, sym, need, k, tnow, calls, upstream>>

\* Get, lines 128-129: c.mu.Unlock() and the return of the cached values.
UnlockHitKeepLock(p) ==
  /\ pc[p] = "hit"
  /\ pc' = [pc EXCEPT ![p] = "done"]
  /\ tnow' = [tnow EXCEPT ![p] = 0]
  /\ seen' = [seen EXCEPT ![p] = NoEnt]
  /\ UNCHANGED <<colVars, execVars, cfgVars, cacheVars, mu, now, sym, need, k, res, calls, upstream, race>>
UnlockHit(p) ==
  /\ pc[p] = "hit"
  /\ mu' = 0
  /\ pc' = [pc EXCEPT ![p] = "done"]
  /\ tnow' = [tnow EXCEPT ![p] = 0]
  /\ seen' = [seen EXCEPT ![p] = NoEnt]
  /\ UNCHANGED <<colVars, execVars, cfgVars, cacheVars, now, sym, need, k, res, calls, upstream, race>>

\* Get, lines 135-138: c.mu.Unlock(), then c.next.Get is entered.
UnlockMissKeepLock(p) ==
  /\ pc[p] = "miss"
  /\ pc' = [pc EXCEPT ![p] = "infetch"]
  /\ seen' = [seen EXCEPT ![p] = NoEnt]
  /\ calls' = [calls EXCEPT ![p] = calls[p] + 1]
  /\ UNCHANGED <<colVars, execVars, cfgVars, cacheVars, mu, now, sym, need, k, tnow, res, upstream, race>>
UnlockMiss(p) ==
  /\ pc[p] = "miss"
  /\ mu' = 0
  /\ pc' = [pc EXCEPT ![p] = "infetch"]
  /\ seen' = [seen EXCEPT ![p] = NoEnt]
  /\ calls' = [calls EXCEPT ![p] = calls[p] + 1]
  /\ UNCHANGED <<colVars, execVars, cfgVars, cacheVars, now, sym, need, k, tnow, res, upstream, race>>

\* Get, lines 138-141: c.next.Get returns; an error is returned as it is.
FetchReturnCacheError(p, resp) ==
  /\ pc[p] = "infetch"
  /\ LET r == YFServiceGet(sym[p], need[p], resp) IN
       /\ res' = [res EXCEPT ![p] = [q |-> r.q, f |-> r.f, err |-> r.err]]
       /\ upstream' = [upstream EXCEPT ![p] = upstream[p] + r.up]
       /\ pc' = [pc EXCEPT ![p] = "lock2"]
  /\ UNCHANGED <<colVars, execVars, cfgVars, cacheVars, mu, now, sym, need, k, tnow, seen, calls, race>>
FetchReturn(p, resp) ==
  /\ pc[p] = "infetch"
  /\ LET r == YFServiceGet(sym[p], need[p], resp) IN
       /\ res' = [res EXCEPT ![p] = [q |-> r.q, f |-> r.f, err |-> r.err]]
       /\ upstream' = [upstream EXCEPT ![p] = upstream[p] + r.up]
       /\ pc' = [pc EXCEPT ![p] = IF r.err # Nil THEN "done" ELSE "lock2"]
       /\ tnow' = [tnow EXCEPT ![p] = IF r.err # Nil THEN 0 ELSE tnow[p]]
  /\ UNCHANGED <<colVars, execVars, cfgVars, cacheVars, mu, now, sym, need, k, seen, calls, race>>

\* Get, lines 142-150: c.mu.Lock(), the insert and the eviction loop, taken
\* while the order list is shorter than cap.
Insert(p, cap) ==
  /\ pc[p] = "lock2"
  /\ mu = 0
  /\ Len(order) < cap
  /\ mu' = p
  /\ LET ent == [at |-> tnow[p], q |-> res[p].q, fund |-> res[p].f]
         out == EnforceSize(MapSet(items, k[p], ent), Append(order, k[p]), size)
     IN /\ items' = out[1]
        /\ order' = out[2]
        /\ lru' = SelectSeq(Append(removeFromOrderLocked(lru, k[p]), k[p]),
                            LAMBDA x : x \in DOMAIN out[1])
  /\ pc' = [pc EXCEPT ![p] = "inserted"]
  /\ UNCHANGED <<colVars, execVars, cfgVars, now, sym, need, k, tnow, seen, res, calls, upstream, race>>

\* Get, lines 151-152: c.mu.Unlock() and the return of the fetched values.
UnlockInsert(p) ==
  /\ pc[p] = "inserted"
  /\ mu' = 0
  /\ pc' = [pc EXCEPT ![p] = "done"]
  /\ tnow' = [tnow EXCEPT ![p] = 0]
  /\ UNCHANGED <<colVars, execVars, cfgVars, cacheVars, now, sym, need, k, seen, res, calls, upstream, race>>

\* YFService.Get called without the cache: the empty symbol returns at once,
\* any other symbol goes to the upstream request, where the goroutine waits.
YFGet(p, s, n) ==
  /\ pc[p] = "idle"
  /\ sym' = [sym EXCEPT ![p] = s]
  /\ need' = [need EXCEPT ![p] = n]
  /\ IF s = EmptySym
     THEN /\ res' = [res EXCEPT ![p] = ZeroRes]
          /\ pc' = [pc EXCEPT ![p] = "yfdone"]
     ELSE /\ pc' = [pc EXCEPT ![p] = "yfwait"]
          /\ UNCHANGED res
  /\ UNCHANGED <<colVars, execVars, cfgVars, cacheVars, mu, now, k, tnow, seen, calls, upstream,
                 race>>

\* QuoteSummary answers; YFService.Get decodes the answer and returns.
YFReturn(p, resp) ==
  /\ pc[p] = "yfwait"
  /\ LET r == YFServiceGet(sym[p], need[p], resp) IN
       /\ res' = [res EXCEPT ![p] = [q |-> r.q, f |-> r.f, err |-> r.err]]
       /\ upstream' = [upstream EXCEPT ![p] = r.up]
  /\ pc' = [pc EXCEPT ![p] = "yfdone"]
  /\ UNCHANGED <<colVars, execVars, cfgVars, cacheVars, mu, now, sym, need, k, tnow, seen, calls,
                 race>>

\* The caller has taken the returned values; the goroutine is free again.
Return(p) ==
  /\ pc[p] \in {"done", "yfdone"}
  /\ pc' = [pc EXCEPT ![p] = "idle"]
  /\ sym' = [sym EXCEPT ![p] = EmptySym]
  /\ need' = [need EXCEPT ![p] = NeedNone]
  /\ k' = [k EXCEPT ![p] = << >>]
  /\ res' = [res EXCEPT ![p] = ZeroRes]
  /\ calls' = [calls EXCEPT ![p] = 0]
  /\ upstream' = [upstream EXCEPT ![p] = 0]
  /\ race' = FALSE
  /\ UNCHANGED <<colVars, execVars, cfgVars, cacheVars, mu, now, tnow, seen>>

\* The clock advances.
Tick ==
  /\ now < MaxTime
  /\ now' = now + 1
  /\ UNCHANGED <<colVars, execVars, cfgVars, cacheVars, mu, pc, sym, need, k, tnow, seen, res, calls,
                 upstream, race>>

\* Every step but the call and the insert.
Steps ==
  \/ \E p \in Procs : LockLookup(p)
  \/ \E p \in Procs : UnlockHit(p)
  \/ \E p \in Procs : UnlockMiss(p)
  \/ \E p \in Procs : \E resp \in Responses : FetchReturn(p, resp)
  \/ \E p \in Procs : UnlockInsert(p)
  \/ \E p \in Procs : \E a \in DirectArgs : YFGet(p, a[1], a[2])
  \/ \E p \in Procs : \E resp \in DirectResponses : YFReturn(p, resp)
  \/ \E p \in Procs : Return(p)
  \/ Tick

\* Every step but the insert.
Others ==
  \/ \E p \in Procs : \E a \in CacheArgs \cup EmptyArgs : Call(p, a[1], a[2])
  \/ Steps

Next ==
  \/ Others
  \/ \E p \in Procs : Insert(p, MaxOrder)

Spec == Init /\ [][Next]_vars

\* The same cache with room for two more stale or duplicate keys in the
\* order list, where the later effects of a same-key race are reached.
NextRace ==
  \/ Others
  \/ \E p \in Procs : Insert(p, MaxOrder + 2)

SpecRace == Init /\ [][NextRace]_vars

\* The cache where the bound on the order list is kept by the calls: a Get
\* is only started while the list has room for the key of every Get in
\* flight (those that may still append their key), so no Get that was
\* started is ever held back by the bound. c.next.Get answers with a failure
\* or a payload.
NextFair ==
  \/ /\ Len(order)
          + Cardinality({p \in Procs : pc[p] \in {"lock1", "miss", "infetch", "lock2"}})
        < MaxOrder
     /\ \E p \in Procs : \E a \in CacheArgs \cup EmptyArgs : Call(p, a[1], a[2])
  \/ \E p \in Procs : LockLookup(p)
  \/ \E p \in Procs : UnlockHit(p)
  \/ \E p \in Procs : UnlockMiss(p)
  \/ \E p \in Procs : \E resp \in DirectResponses : FetchReturn(p, resp)
  \/ \E p \in Procs : Insert(p, MaxOrder)
  \/ \E p \in Procs : UnlockInsert(p)
  \/ \E p \in Procs : Return(p)
  \/ Tick

\* Scheduling: a goroutine that can run does run; c.next.Get returns; and a
\* goroutine waiting in c.mu.Lock() is not passed over forever (sync.Mutex
\* hands the mutex to a waiter that has waited long).
Fairness ==
  \A p \in Procs :
    /\ SF_vars(LockLookup(p))
    /\ SF_vars(Insert(p, MaxOrder))
    /\ WF_vars(UnlockHit(p))
    /\ WF_vars(UnlockMiss(p))
    /\ WF_vars(UnlockInsert(p))
    /\ WF_vars(\E resp \in DirectResponses : FetchReturn(p, resp))

SpecFair == Init /\ [][NextFair]_vars /\ Fairness


\* ========================================================= column layer run
\* Bounds of the inputs: the longest column list, item list and roster.
MaxCols == 3
MaxItems == 2
MaxOfficers == 3
\* The rows of the table that is sorted.
MaxRows == 3

RECURSIVE SeqsOfLen(_, _)
\* The sequences over S of length m, and of length at most n.
SeqsOfLen(S, m) ==
  IF m = 0 THEN {<< >>}
  ELSE {Append(s, x) : s \in SeqsOfLen(S, m - 1), x \in S}
SeqsUpTo(S, n) == UNION {SeqsOfLen(S, m) : m \in 0..n}

\* The mappings the YAML source hands to toItem.
Raw ==
  <<(Col.sym :> StrVal(<<"A">>)),
    (Col.sym :> StrVal(<<"A">>)) @@ (Col.name :> StrVal(<<"N">>)) @@ (Col.exchange :> StrVal(<<"X">>)),
    (Col.sym :> StrVal(<<"B">>)) @@ (Col.thesis :> StrVal(<<"u", "v">>)) @@ (Col.PE :> IntVal(12)),
    (Col.name :> StrVal(<<"N">>)) @@ (Col.thesis :> NilVal),
    (Col.sym :> NilVal) @@ (Col.price :> StrVal(<<"9">>)),
    (Col.sym :> IntVal(7)) @@ (Col.name :> StrVal(<<"N">>))>>
RawItems == Range(Raw)
Items == {toItem(m) : m \in RawItems}

\* The names explicit column lists are made of.
ExplicitNames == {Col.sym, Col.price, Col.thesis}

\* The first letter in upper case.
Capitalize(c) == IF c = << >> THEN c ELSE <<UpperChar(Head(c))>> \o Tail(c)
\* Spellings of a column name that differ in case only.
Variants(c) == {c, ToUpper(c), ToLower(c), Capitalize(c)}
\* The names that the alias table maps to c.
AliasesOf(c) == {a \in DOMAIN aliases : aliases[a] = c}

\* Names with no resolver under any spelling.
UnknownNames == {Col.thesis, Col.Thesis, Col.exchange, Col.watchlist}
\* The columns RenderValue is asked for.
RenderCols ==
  UNION {Variants(c) : c \in Registry \cup DOMAIN aliases} \cup UnknownNames
\* The names the lists given to NeedForColumns are made of.
NeedNames ==
  {Col.sym, Col.name, Col.thesis, Col.price, ToUpper(Col.price), Col.chgpct,
   Col.ceo, Col.roepct, Col.div, Col.MarketCap}

\* Compute is applied to an explicit list and the items of a watchlist.
ApplyCompute ==
  /\ fn = "none"
  /\ \E explicit \in SeqsUpTo(ExplicitNames, MaxCols) :
       \E its \in SeqsUpTo(Items, MaxItems) :
         /\ fn' = "Compute"
         /\ fin' = [NoIn EXCEPT !.explicit = explicit, !.items = its]
         /\ fout' = [NoOut EXCEPT !.cols = Compute(explicit, its)]
         /\ UNCHANGED <<getVars, execVars>>

\* NeedForColumns is applied to a column list.
ApplyNeedForColumns ==
  /\ fn = "none"
  /\ \E cols \in SeqsUpTo(NeedNames, MaxCols) :
       /\ fn' = "NeedForColumns"
       /\ fin' = [NoIn EXCEPT !.cols = cols]
       /\ fout' = [NoOut EXCEPT !.need = NeedForColumns(cols)]
       /\ UNCHANGED <<getVars, execVars>>

\* NeedForColumns is applied to one spelling of a column name.
ApplyNeedForColumn ==
  /\ fn = "none"
  /\ \E col \in RenderCols :
       /\ fn' = "NeedForColumns"
       /\ fin' = [NoIn EXCEPT !.cols = <<col>>]
       /\ fout' = [NoOut EXCEPT !.need = NeedForColumns(<<col>>)]
       /\ UNCHANGED <<getVars, execVars>>

\* RenderValue is applied to a column, an item and a service.
ApplyRenderValue ==
  /\ fn = "none"
  /\ \E col \in RenderCols : \E it \in Items : \E s \in Services :
       /\ fn' = "RenderValue"
       /\ fin' = [NoIn EXCEPT !.col = col, !.it = it, !.s = s]
       /\ fout' = [NoOut EXCEPT !.r = RenderValue(col, it, s)]
       /\ UNCHANGED <<getVars, execVars>>

\* YFService.Get decodes a roster of officers, and the ceo and
\* avg_officer_age columns are resolved from what it decoded; ceoFromRaw
\* renders the same roster.
ApplyOfficers ==
  /\ fn = "none"
  /\ \E officers \in SeqsUpTo(OfficerPool, MaxOfficers) :
       /\ fn' = "Officers"
       /\ fin' = [NoIn EXCEPT !.officers = officers]
       /\ fout' = [NoOut EXCEPT
                  !.f = DecodeOfficers(officers),
                  !.ceo = RenderValue(Col.ceo, toItem(Raw[1]), YFStub(officers)).s,
                  !.avg = RenderValue(Col.avg_officer_age, toItem(Raw[1]),
                                      YFStub(officers)).s,
                  !.raw = ceoFromRaw(officers)]
       /\ UNCHANGED <<getVars, execVars>>

\* The assetProfiles upstream answers with, and the needs and answers
\* YFService.Get is tried with.
Profiles ==
  {[NoProfile EXCEPT !.Sector = <<"T", "e", "c", "h">>, !.Industry = <<"S", "W">>,
                     !.FullTimeEmployees = 5, !.City = ci, !.Country = co,
                     !.Phone = ph, !.Website = w, !.IrWebsite = ir] :
     ci \in {<< >>, <<"T">>}, co \in {<< >>, <<"J">>}, ph \in {<< >>, <<"0", "3">>},
     w \in {<< >>, <<"h", "t", "t", "p", "s", ":", "/", "/", "w", "w", "w", ".", "e", ".", "c", "o">>,
            <<"w", "w", "w", ".", "e", ".", "c", "o">>},
     ir \in {<< >>, <<" ">>, <<"h", "t", "t", "p", ":", "/", "/", "i", "r", ".", "e", ".", "c", "o", "/", "x">>}}

\* YFService.Get is called for a symbol and a need and upstream answers
\* with an assetProfile; the hq column is resolved from the same profile.
ApplyProfile ==
  /\ fn = "none"
  /\ \E ap \in Profiles : \E sy \in {EmptySym, SymA} :
       \E n \in {NeedPrice, NeedIndustry, NeedAssetProfile,
                 NeedPrice + NeedChgPct + NeedAssetProfile} :
       \E kind \in {"error", "noprice", "ok"} :
         /\ fn' = "Profile"
         /\ fin' = [NoIn EXCEPT !.ap = ap, !.need = n, !.sym = sy, !.resp = kind]
         /\ fout' = [NoOut EXCEPT
                      !.get = YFServiceGetProfile(sy, n, [kind |-> kind, ver |-> 1],
                                                  ap, <<Officer.C>>),
                      !.r = RenderValue(Col.hq, toItem(Raw[1]), ProfileStub(ap))]
         /\ UNCHANGED <<getVars, execVars>>

\* Render sorts the rows of one watchlist by the column thesis, ascending or
\* descending; row n is the item with the n-th symbol, and no upstream
\* request succeeds. The items hold in the column sorted by: numbers, one
\* with a fraction, NaN, a number with a unit, a range, a word, nil, or two
\* fields whose names differ in case. sort.SliceStable sorts the rows built.
ApplySort ==
  /\ fn = "none"
  /\ \E n \in 1..MaxRows : \E desc \in BOOLEAN :
     \E fs \in SeqsOfLen(
          {(Col.thesis :> v) :
             v \in {StrVal(<<"1", "0">>), StrVal(<<"9">>),
                    StrVal(<<"1", ".", "0", "0", "5", "K">>),
                    StrVal(<<"N", "a", "N">>), StrVal(<<"9", "x">>),
                    StrVal(<<"5", "-", "6">>), StrVal(<<"A">>), NilVal}}
            \cup {(Col.thesis :> StrVal(<<"x">>)) @@ (Capitalize(Col.thesis) :> StrVal(<<"5">>)),
                  (Capitalize(Col.thesis) :> StrVal(<<"5">>))
                    @@ (ToUpper(Col.thesis) :> StrVal(<<"x">>))}, n) :
       LET its == [i \in 1..n |-> toItem((Col.sym :> StrVal(<<UpperCase[i]>>)) @@ fs[i])]
       IN \E rows \in RowsOf(Col.thesis, its) :
            /\ fn' = "Sort"
            /\ fin' = [NoIn EXCEPT !.items = its, !.col = Col.thesis, !.desc = desc,
                                   !.rows = rows]
            /\ fout' = [NoOut EXCEPT !.rows = insertionSort(rows, 2, 2, desc)]
            /\ UNCHANGED <<getVars, execVars>>

\* The result has been taken; the next application starts afresh.
Forget ==
  /\ fn # "none"
  /\ fn' = "none"
  /\ fin' = NoIn
  /\ fout' = NoOut
  /\ UNCHANGED <<getVars, execVars>>

NextCols ==
  \/ ApplyCompute
  \/ ApplyNeedForColumns
  \/ ApplyNeedForColumn
  \/ ApplyRenderValue
  \/ ApplyOfficers
  \/ ApplyProfile
  \/ ApplySort
  \/ Forget

\* The cache is not part of these runs: it stays as constructed with nothing
\* to hold.
InitCols == Init /\ ttl = 0 /\ size = 0

SpecCols == InitCols /\ [][NextCols]_vars

\* ------------------------------------------------------------ pipeline run
\* The size main gives the cache when a TTL is set without a size.
DefaultCacheSize == 1000

\* The items of the watchlists a run renders.
ExecItems == {toItem(Raw[1]), toItem(Raw[2]), toItem(Raw[3])}

\* The upstream requests one Get of the service makes: YFService.Get asks
\* upstream once for every symbol but the empty one.
YFRequests(sy, n) == IF sy = << >> THEN << >> ELSE <<[sym |-> sy, need |-> n]>>

RECURSIVE RequestsOf(_, _)
\* The upstream requests of the Gets with the need masks ns for a symbol.
RequestsOf(sy, ns) ==
  IF ns = << >> THEN << >> ELSE YFRequests(sy, Head(ns)) \o RequestsOf(sy, Tail(ns))

\* The Get TableRenderer.Render makes to colour a cell: for the columns
\* named exactly "price" and "chg%" when colour is on.
ColorGet(c, color) ==
  IF color /\ c \in {Col.price, Col.chgpct}
  THEN <<BitOr(NeedChgPct, NeedPrice)>> ELSE << >>

\* The cell after <<i, j>> in a table of n columns.
NextCell(i, j, n) == IF j < n THEN <<i, j + 1>> ELSE <<i + 1, 1>>

\* main builds the YFService qs, hands it to the table renderer and to the
\* Runner, and calls Execute: Execute wraps r.Quotes in a CacheService when
\* TTL and size are positive, keeps the result in svc only, computes the
\* columns of the list and calls the renderer.
Execute ==
  /\ xpc = "idle"
  /\ \E t \in {0, 1} : \E sz \in {0, DefaultCacheSize} : \E color \in BOOLEAN :
       \E ocols \in SeqsUpTo({Col.name, Col.price, Col.sector}, MaxCols) :
         \E its \in SeqsUpTo(ExecItems, MaxItems) :
           \E d \in SUBSET {it.Sym : it \in ExecItems} :
           /\ xopts' = [PriceCacheTTL |-> t, PriceCacheSize |-> sz,
                        Color |-> color, Columns |-> ocols]
           /\ xsvc' = [svc |-> IF t > 0 /\ sz > 0 THEN "cache" ELSE "yf",
                       renderer |-> "yf", down |-> d]
           /\ xitems' = its
           /\ xcols' = Compute(ocols, its)
           /\ xcell' = <<1, 1>>
           /\ xreq' = << >>
           /\ xrows' = << >>
           /\ xpc' = "render"
  /\ UNCHANGED <<getVars, colVars>>

\* One turn of the inner loop of TableRenderer.Render: RenderValue with the
\* renderer's own services, then the Get for the colour, whose ChgRaw turns
\* the value green or red: text.Colors{c}.Sprintf("%s", val) is val between
\* the escape sequence of the colour and the reset sequence, each written
\* here as one element. The renderer's service is the YFService: for a
\* symbol whose upstream is up it decodes the quote and, where the need asks
\* for it, the assetProfile with its officers, and nothing else -- the
\* members of Fundamentals the financialData and summaryDetail columns read
\* stay nil, their cells empty.
RenderCell ==
  /\ xpc = "render"
  /\ xcell[1] <= Len(xitems)
  /\ xcell[2] <= Len(xcols)
  /\ LET i == xcell[1]
         j == xcell[2]
         it == xitems[i]
         c == xcols[j]
         up == [kind |-> "profile",
                officers |-> <<[Name |-> <<"B">>, Title |-> <<"C", "E", "O">>,
                                Age |-> <<50>>],
                               [Name |-> <<"A">>, Title |-> <<"V", "P">>,
                                Age |-> <<30>>]>>,
                ap |-> [NoProfile EXCEPT
                          !.Sector = <<"T", "e", "c", "h">>,
                          !.Industry = <<"S", "W">>,
                          !.FullTimeEmployees = 1234,
                          !.City = <<"T">>, !.Country = <<"J">>,
                          !.Phone = <<"0", "3">>,
                          !.Website = <<"h", "t", "t", "p", "s", ":", "/", "/",
                                        "w", "w", "w", ".", "e", ".", "c", "o">>]]
         s == IF it.Sym \in xsvc.down THEN Stub("err") ELSE up
         r == RenderValue(c, it, s)
         q == QuotesGet(s, it.Sym, BitOr(NeedChgPct, NeedPrice)).q
         val == IF ColorGet(c, xopts.Color) = << >> THEN r.s
                ELSE IF q.ChgRaw > 0 THEN <<"green">> \o r.s \o <<"reset">>
                ELSE IF q.ChgRaw < 0 THEN <<"red">> \o r.s \o <<"reset">>
                ELSE r.s
         row == IF j = 1 THEN << >> ELSE xrows[Len(xrows)]
         done == IF j = 1 THEN xrows ELSE SubSeq(xrows, 1, Len(xrows) - 1)
     IN /\ xreq' = xreq \o RequestsOf(it.Sym, r.req)
                        \o RequestsOf(it.Sym, ColorGet(c, xopts.Color))
        /\ xrows' = Append(done, Append(row, val))
        /\ xcell' = NextCell(i, j, Len(xcols))
  /\ UNCHANGED <<xpc, xopts, xsvc, xitems, xcols, getVars, colVars>>

\* Render has gone through every row and returns; so does Execute.
RenderReturn ==
  /\ xpc = "render"
  /\ xcell[1] > Len(xitems) \/ xcell[2] > Len(xcols)
  /\ xpc' = "done"
  /\ UNCHANGED <<xopts, xsvc, xitems, xcols, xcell, xreq, xrows, getVars, colVars>>

\* The process ends; the next run starts afresh.
Exit ==
  /\ xpc = "done"
  /\ xpc' = "idle"
  /\ xopts' = [PriceCacheTTL |-> 0, PriceCacheSize |-> 0, Color |-> FALSE,
               Columns |-> << >>]
  /\ xsvc' = [svc |-> "none", renderer |-> "none", down |-> {}]
  /\ xitems' = << >>
  /\ xcols' = << >>
  /\ xcell' = <<0, 0>>
  /\ xreq' = << >>
  /\ xrows' = << >>
  /\ UNCHANGED <<getVars, colVars>>

NextExec ==
  \/ Execute
  \/ RenderCell
  \/ RenderReturn
  \/ Exit

\* The cache of the first part is not part of these runs.
InitExec == Init /\ ttl = 0 /\ size = 0

SpecExec == InitExec /\ [][NextExec]_vars

\* ------------------------------------------------------------ claim helpers
\* The values Get returns for a hit on entry e.
HitRes(e) == [q |-> e.q, f |-> e.fund, err |-> Nil]
\* seq without its first occurrence of x (seq itself when x is absent).
WithoutFirst(seq, x) ==
  IF \E i \in 1..Len(seq) : seq[i] = x
  THEN LET i == CHOOSE j \in 1..Len(seq) :
                  seq[j] = x /\ \A h \in 1..(j - 1) : seq[h] # x
       IN [h \in 1..(Len(seq) - 1) |-> IF h < i THEN seq[h] ELSE seq[h + 1]]
  ELSE seq
\* The current Get of p took the miss path and returned without error.
FetchedOk(p) == pc[p] = "done" /\ calls[p] = 1 /\ res[p].err = Nil

\* C1: once a Get has fetched and inserted an entry, a later Get of the same
\* (sym, need) whose clock reading is within the TTL of the entry's
\* timestamp, made before the entry is evicted, returns exactly the stored
\* Quote and Fundamentals with a nil error and without calling the wrapped
\* service. The insert stores exactly the fetched values under the reading of
\* the clock the inserting Get took, and a stored entry changes only by an
\* insert for its key.
C1_RoundTrip ==
  /\ [][\A p \in Procs :
          (pc[p] = "lock1" /\ pc'[p] # "lock1" /\ k[p] \in DOMAIN items
             /\ tnow[p] - items[k[p]].at <= ttl)
          => /\ pc'[p] = "hit"
             /\ res'[p] = HitRes(items[k[p]])
             /\ calls'[p] = 0
             /\ items' = items]_vars
  /\ [][\A p \in Procs :
          (pc[p] = "hit" /\ pc'[p] # "hit")
          => pc'[p] = "done" /\ res'[p] = res[p] /\ calls'[p] = 0]_vars
  /\ [][\A p \in Procs :
          (pc[p] = "lock2" /\ pc'[p] # "lock2" /\ k[p] \in DOMAIN items')
          => items'[k[p]] = [at |-> tnow[p], q |-> res[p].q, fund |-> res[p].f]]_vars
  /\ [][\A x \in DOMAIN items \cap DOMAIN items' :
          items'[x] # items[x]
          => \E p \in Procs : pc[p] = "lock2" /\ pc'[p] = "inserted" /\ k[p] = x]_vars

\* C1 witness: a Get is returning, from the cache and without a call of the
\* wrapped service, the second payload that an earlier Get stored.
C1_Witness ==
  \E p \in Procs :
    /\ pc[p] = "done" /\ sym[p] # EmptySym /\ calls[p] = 0
    /\ res[p].err = Nil /\ res[p].q.ver = 2 /\ res[p].f.ver = 2

\* C2: Get never returns a cached entry whose age (the Get's clock reading
\* minus the entry's timestamp) exceeds the TTL; a Get that finds such an
\* entry deletes the key from the map, drops its first occurrence from the
\* order list, and calls the wrapped service.
C2_Expiry ==
  /\ [](\A p \in Procs :
          pc[p] = "hit" => seen[p] # NoEnt /\ tnow[p] - seen[p].at <= ttl)
  /\ [][\A p \in Procs :
          (pc[p] = "lock1" /\ pc'[p] # "lock1" /\ k[p] \in DOMAIN items
             /\ tnow[p] - items[k[p]].at > ttl)
          => /\ pc'[p] = "miss"
             /\ DOMAIN items' = DOMAIN items \ {k[p]}
             /\ \E i \in 1..Len(order) : order[i] = k[p]
             /\ order' = WithoutFirst(order, k[p])]_vars
  /\ [][\A p \in Procs :
          (pc[p] = "miss" /\ pc'[p] # "miss")
          => pc'[p] = "infetch" /\ calls'[p] = calls[p] + 1]_vars

\* C2 witness: a Get has found an entry older than the TTL and dropped it.
C2_Witness ==
  \E p \in Procs :
    /\ pc[p] = "miss" /\ seen[p] # NoEnt
    /\ tnow[p] - seen[p].at > ttl
    /\ k[p] \notin DOMAIN items

\* Distinct (symbol, need) pairs have distinct keys.
KeyInjective ==
  \A s1 \in KeySyms, s2 \in KeySyms : \A n1 \in KeyNeeds, n2 \in KeyNeeds :
    key(s1, n1) = key(s2, n2) => s1 = s2 /\ n1 = n2

\* C3: cache entries are keyed by the (symbol, need) pair. Distinct pairs
\* have distinct keys; every entry holds values fetched for the pair of its
\* key; and a Get(s, n) never returns values fetched for another pair, so a
\* Get(s, needB) is not served from the entry of Get(s, needA).
C3_KeyedByPair ==
  /\ KeyInjective
  /\ \A x \in DOMAIN items :
       /\ x = key(items[x].fund.sym, items[x].fund.need)
       /\ items[x].q.sym = items[x].fund.sym
  /\ \A p \in Procs :
       (pc[p] \in {"hit", "done"} /\ sym[p] # EmptySym /\ res[p].err = Nil)
       => /\ res[p].q.sym = sym[p]
          /\ res[p].f.sym = sym[p]
          /\ res[p].f.need = need[p]

\* C3 witness: with Get(A, price+chg%) cached, a Get(A, industry) has looked
\* up the map and found nothing.
C3_Witness ==
  \E p \in Procs :
    /\ pc[p] = "miss" /\ seen[p] = NoEnt
    /\ sym[p] = SymA /\ need[p] = NeedIndustry
    /\ key(SymA, NeedPrice + NeedChgPct) \in DOMAIN items

\* C4: whenever no call holds the mutex, the map has at most size entries.
C4_Capacity == mu = 0 => Cardinality(DOMAIN items) <= size

\* C4 witness: the cache is full, no call holds the mutex, and the insert of
\* one goroutine's Get has evicted the entry the other's Get had inserted.
C4_Witness ==
  /\ mu = 0 /\ size >= 1 /\ Cardinality(DOMAIN items) = size
  /\ \E p \in Procs, o \in Procs :
       /\ FetchedOk(p) /\ FetchedOk(o) /\ k[p] # k[o]
       /\ k[p] \in DOMAIN items /\ k[o] \notin DOMAIN items

\* C5 (as claimed): with capacity c >= 1 and no entry expired, once c keys
\* are cached, the insert of one further key evicts exactly one entry, the
\* key whose most recent insert or cache hit is the oldest.
C5_EvictsLeastRecentlyUsed ==
  [][\A p \in Procs :
       (/\ pc[p] = "lock2" /\ pc'[p] = "inserted"
        /\ size >= 1 /\ Cardinality(DOMAIN items) = size
        /\ k[p] \notin DOMAIN items
        /\ \A x \in DOMAIN items : now - items[x].at <= ttl)
       => DOMAIN items' = (DOMAIN items \cup {k[p]}) \ {lru[1]}]_vars

\* C6: when the wrapped service returns an error, Get returns what the
\* wrapped service returned, error included, and leaves the map and the order
\* list as they were; only a result without error reaches the insert, so no
\* entry ever holds the values of a failed fetch; and a Get that finds no
\* entry for its key calls the wrapped service.
C6_ErrorNotCached ==
  /\ [][\A p \in Procs :
          (pc[p] = "infetch" /\ pc'[p] # "infetch")
          => \E resp \in Responses :
               LET r == YFServiceGet(sym[p], need[p], resp) IN
                 /\ res'[p] = [q |-> r.q, f |-> r.f, err |-> r.err]
                 /\ r.err # Nil => pc'[p] = "done" /\ items' = items /\ order' = order
                 /\ r.err = Nil => pc'[p] = "lock2"]_vars
  /\ [](\A p \in Procs : pc[p] \in {"lock2", "inserted"} => res[p].err = Nil)
  /\ [](\A x \in DOMAIN items : items[x].q.ver \in Vers /\ items[x].fund.ver \in Vers)
  /\ [][\A p \in Procs :
          (pc[p] = "lock1" /\ pc'[p] # "lock1" /\ k[p] \notin DOMAIN items)
          => pc'[p] = "miss" /\ items' = items]_vars
  /\ [][\A p \in Procs :
          (pc[p] = "miss" /\ pc'[p] # "miss")
          => pc'[p] = "infetch" /\ calls'[p] = 1 /\ items' = items]_vars

\* C6 witness: one Get has returned the wrapped service's "no price" error,
\* its key is not in the map, and the next Get of that key has missed.
C6_Witness ==
  \E p \in Procs, o \in Procs :
    /\ pc[p] = "done" /\ calls[p] = 1 /\ res[p].err = ErrNoPrice
    /\ k[p] \notin DOMAIN items
    /\ pc[o] = "miss" /\ k[o] = k[p] /\ ~race

\* C7: the mutex is held exactly by a goroutine inside one of the two
\* critical sections, never by one whose call of the wrapped service is in
\* progress, so a fetch in progress blocks no other Get.
C7_NoLockWhileFetching ==
  /\ \A p \in Procs : pc[p] \in {"hit", "miss", "inserted"} <=> mu = p
  /\ \A p \in Procs : pc[p] = "infetch" => mu # p
  /\ \A p \in Procs, o \in Procs :
       (pc[p] = "infetch" /\ pc[o] \in {"lock1", "lock2"}) => mu = 0

\* C7 witness: two Gets for different keys are both inside the wrapped
\* service.
C7_Witness ==
  \E p \in Procs, o \in Procs :
    pc[p] = "infetch" /\ pc[o] = "infetch" /\ k[p] # k[o]

\* C8 (as claimed, for a cache of capacity >= 1): when two concurrent Gets of
\* one key both miss and both fetch without error, then once both have
\* inserted, the map holds the entry for that key written by the later
\* insert.
C8_LaterInsertWins ==
  \A p \in Procs, o \in Procs :
    (/\ p # o /\ size >= 1 /\ race /\ k[p] = k[o]
     /\ FetchedOk(p)
     /\ (pc[o] = "inserted" \/ FetchedOk(o)))
    => /\ k[o] \in DOMAIN items
       /\ pc[o] = "inserted"
          => items[k[o]].q = res[o].q /\ items[k[o]].fund = res[o].f
       /\ FetchedOk(o)
          => \E w \in {p, o} :
               items[k[o]].q = res[w].q /\ items[k[o]].fund = res[w].f

\* C9 (as claimed): with TTL = 0 or capacity = 0 no Get is served from the
\* cache, and with capacity 0 no entry is retained.
C9_NeverServed ==
  (ttl = 0 \/ size = 0)
  => /\ \A p \in Procs : pc[p] # "hit"
     /\ (size = 0 /\ mu = 0) => DOMAIN items = {}

\* C9 (amended): with capacity 0 no Get is served from the cache, every Get
\* with a non-empty symbol calls the wrapped service, and no entry is
\* retained; with TTL = 0 a Get is served from the cache only when its clock
\* reading is not later than the entry's timestamp.
C9_ZeroDisables ==
  /\ size = 0
     => /\ \A p \in Procs : pc[p] # "hit"
        /\ \A p \in Procs : (pc[p] = "done" /\ sym[p] # EmptySym) => calls[p] = 1
        /\ mu = 0 => DOMAIN items = {}
  /\ ttl = 0
     => \A p \in Procs : pc[p] = "hit" => tnow[p] <= seen[p].at

\* C9 witness: with TTL = 0 a Get that read the clock before the entry's
\* timestamp is served from the cache.
C9_Witness ==
  /\ ttl = 0
  /\ \E p \in Procs : pc[p] = "hit" /\ seen[p] # NoEnt /\ tnow[p] < seen[p].at

\* C10: a Get with an empty symbol, on CacheService and on YFService, returns
\* the zero Quote and Fundamentals with a nil error, calls neither the
\* wrapped service nor the upstream, takes no lock, and leaves the map and
\* the order list unchanged.
C10_EmptySymbol ==
  /\ [](\A p \in Procs :
          (pc[p] # "idle" /\ sym[p] = EmptySym)
          => /\ pc[p] \in {"done", "yfdone"}
             /\ res[p] = ZeroRes
             /\ calls[p] = 0 /\ upstream[p] = 0)
  /\ [][\A p \in Procs :
          (pc[p] = "idle" /\ pc'[p] # "idle" /\ sym'[p] = EmptySym)
          => /\ pc'[p] \in {"done", "yfdone"}
             /\ items' = items /\ order' = order /\ mu' = mu]_vars

\* C10 witness: with an entry cached, one goroutine has returned from
\* CacheService.Get("") and the other from YFService.Get("").
C10_Witness ==
  /\ DOMAIN items # {}
  /\ \E p \in Procs, o \in Procs :
       /\ pc[p] = "done" /\ sym[p] = EmptySym
       /\ pc[o] = "yfdone" /\ sym[o] = EmptySym

\* ------------------------------------------------- claims on the column layer
\* The positions of seq that hold the first occurrence of their element.
FirstPositions(seq) == {i \in 1..Len(seq) : \A j \in 1..(i - 1) : seq[j] # seq[i]}
\* The four default columns in their order.
DefaultCols == <<Col.sym, Col.name, Col.price, Col.chgpct>>

\* C11: for a non-empty explicit list, whatever the items, Compute returns
\* the explicit list without its later duplicates -- the n-th entry of the
\* result is the n-th first occurrence of the list -- and no default column
\* (sym, name, price, chg%) is in the result unless it is in the list.
C11_ExplicitVerbatim ==
  (fn = "Compute" /\ Len(fin.explicit) > 0) =>
    LET e == fin.explicit
        firsts == FirstPositions(e)
    IN /\ Len(fout.cols) = Cardinality(firsts)
       /\ \A i \in firsts : fout.cols[Cardinality({j \in firsts : j <= i})] = e[i]
       /\ \A c \in Range(DefaultCols) : c \in Range(fout.cols) => c \in Range(e)

\* C11 witness: Compute(["price", "price", "sym"], items) with an item that
\* has a symbol has returned ["price", "sym"].
C11_Witness ==
  /\ fn = "Compute"
  /\ fin.explicit = <<Col.price, Col.price, Col.sym>>
  /\ \E i \in 1..Len(fin.items) : fin.items[i].Sym # << >>
  /\ fout.cols = <<Col.price, Col.sym>>

\* C12: with an empty explicit list and at least one item with a non-empty
\* symbol, Compute returns sym, name, price, chg% as its first four entries,
\* followed by the other discovered keys in lexicographic order.
C12_InferredDefaultsFirst ==
  (fn = "Compute" /\ Len(fin.explicit) = 0
     /\ \E i \in 1..Len(fin.items) : fin.items[i].Sym # << >>) =>
    LET others == Discovered(fin.items) \ Range(DefaultCols) IN
      /\ Len(fout.cols) = 4 + Cardinality(others)
      /\ SubSeq(fout.cols, 1, 4) = DefaultCols
      /\ {fout.cols[i] : i \in 5..Len(fout.cols)} = others
      /\ \A i, j \in 5..Len(fout.cols) : i < j => StrLess(fout.cols[i], fout.cols[j])

\* C13: NeedForColumns gives one and the same mask to every list with the
\* same set of columns, in whatever order and with whatever repetitions, and
\* the mask 0 to a list made of sym, name and unknown names only.
C13_NeedOrderFree ==
  (fn = "NeedForColumns") =>
    /\ \A other \in SeqsUpTo(Range(fin.cols), MaxCols) :
         Range(other) = Range(fin.cols) => NeedForColumns(other) = fout.need
    /\ Range(fin.cols) \subseteq {Col.sym, Col.name, Col.thesis, Col.Thesis, Col.watchlist}
         => fout.need = NeedNone

\* C13 witness: NeedForColumns(["ceo", "price", "ceo"]) has returned
\* NeedAssetProfile | NeedPrice.
C13_Witness ==
  /\ fn = "NeedForColumns"
  /\ fin.cols = <<Col.ceo, Col.price, Col.ceo>>
  /\ fout.need = NeedAssetProfile + NeedPrice

\* C14: whenever the Get a resolver makes returns an error, with whatever
\* Quote and Fundamentals, RenderValue returns the empty string and a nil
\* error; and a column of the same item that makes no Get resolves to what
\* it resolves to with a service that does not fail.
C14_ErrorGivesEmpty ==
  (fn = "RenderValue" /\ fout.r.req # << >>
     /\ QuotesGet(fin.s, fin.it.Sym, fout.r.req[1]).err # Nil) =>
    /\ fout.r.s = << >>
    /\ fout.r.err = Nil
    /\ \A c \in RenderCols :
         RenderValue(c, fin.it, fin.s).req = << >>
           => RenderValue(c, fin.it, fin.s) = RenderValue(c, fin.it, Stub("ok"))

\* C15: for a column with no resolver under its own name or its canonical
\* name, RenderValue makes no Get and returns no error; it returns the string
\* form of the item's field of exactly that name when the field is there and
\* not nil, and the empty string when the item has no field of that name.
C15_UnknownColumnFallback ==
  (fn = "RenderValue" /\ fin.col \notin Registry
     /\ Canonical(fin.col) \notin Registry) =>
    /\ fout.r.err = Nil
    /\ fout.r.req = << >>
    /\ (fin.col \in DOMAIN fin.it.Fields /\ fin.it.Fields[fin.col].t = "str")
         => fout.r.s = fin.it.Fields[fin.col].s
    /\ (fin.col \in DOMAIN fin.it.Fields /\ fin.it.Fields[fin.col].t = "int")
         => fout.r.s = Dec(fin.it.Fields[fin.col].n)
    /\ fin.col \notin DOMAIN fin.it.Fields => fout.r.s = << >>

\* C15 witness: the column "thesis" of an item whose fields hold
\* thesis: "uv" has been resolved to "uv".
C15_Witness ==
  /\ fn = "RenderValue"
  /\ fin.col = Col.thesis
  /\ Col.thesis \in DOMAIN fin.it.Fields
  /\ fin.it.Fields[Col.thesis] = StrVal(<<"u", "v">>)
  /\ fout.r.s = <<"u", "v">>

\* The officers whose lower-cased title contains one of the three keywords.
ChiefPositions(officers) ==
  {i \in 1..Len(officers) :
     \E kw \in Keywords :
       Contains(ToLower(officers[i].Title), kw)}

\* C16: the CEO is the first officer, in roster order, whose lower-cased
\* title contains "ceo", "president" or "representative director"; the first
\* officer of the roster when no title matches; and name, title and age are
\* all empty when the roster is empty. ceoFromRaw renders the same officer.
C16_CEOSelection ==
  (fn = "Officers") =>
    LET m == ChiefPositions(fin.officers)
        pick == IF m # {} THEN CHOOSE i \in m : \A j \in m : i <= j
                ELSE IF Len(fin.officers) > 0 THEN 1 ELSE 0
    IN IF pick = 0
       THEN /\ fout.f.CEOName = << >> /\ fout.f.CEOTitle = << >>
            /\ fout.f.CEOAge = << >>
            /\ fout.ceo = << >> /\ fout.raw = << >>
       ELSE /\ fout.f.CEOName = normalizeSpace(fin.officers[pick].Name)
            /\ fout.f.CEOTitle = normalizeSpace(fin.officers[pick].Title)
            /\ fout.f.CEOAge = fin.officers[pick].Age
            /\ fout.raw = ceoFromRaw(<<fin.officers[pick]>>)

\* C16 witness: of the roster VP, Co-CEO, President the second officer has
\* been selected.
C16_Witness ==
  /\ fn = "Officers"
  /\ fin.officers = <<Officer.A, Officer.C, Officer.D>>
  /\ fout.f.CEOName = <<"C">>
  /\ fout.f.CEOAge = <<50>>

\* C17: for the roster [{A, "VP"}, {B, "Chief Executive Officer"}] the ceo
\* column is "B", an em dash between two spaces, "Chief Executive Officer".
C17_ChiefExecutiveOfficerPreferred ==
  (fn = "Officers" /\ fin.officers = <<Officer.A, Officer.B>>) =>
    fout.ceo = 
      <<"B", " ", EmDash, " ", "C", "h", "i", "e", "f", " ", "E", "x", "e", "c", "u", "t", "i", "v", "e", " ", "O", "f", "f", "i", "c", "e", "r">>

RECURSIVE SumOfAges(_, _)
\* The sum of the ages of the officers at the positions P.
SumOfAges(officers, P) ==
  IF P = {} THEN 0
  ELSE LET i == CHOOSE x \in P : TRUE
       IN officers[i].Age[1] + SumOfAges(officers, P \ {i})

\* C18: the average officer age is the mean over exactly the officers that
\* have an age; it is absent, and the column empty, if and only if no officer
\* has an age. Ages [30, absent, 50] give "40.0" and [absent, absent] give "".
C18_AvgOfficerAge ==
  (fn = "Officers") =>
    LET aged == {i \in 1..Len(fin.officers) : fin.officers[i].Age # << >>} IN
      /\ (aged = {}) <=> (fout.f.AvgOfficerAge = << >>)
      /\ (aged = {}) <=> (fout.avg = << >>)
      /\ aged # {} =>
           fout.f.AvgOfficerAge =
             <<[num |-> SumOfAges(fin.officers, aged), den |-> Cardinality(aged)]>>
      /\ [i \in 1..Len(fin.officers) |-> fin.officers[i].Age] = <<<<30>>, << >>, <<50>>>>
           => fout.avg = <<"4", "0", ".", "0">>
      /\ [i \in 1..Len(fin.officers) |-> fin.officers[i].Age] = <<<< >>, << >>>>
           => fout.avg = << >>

\* C18 witness: a roster with the ages 30, absent, 50 has been rendered as
\* "40.0".
C18_Witness ==
  /\ fn = "Officers"
  /\ fin.officers = <<Officer.D, Officer.A, Officer.C>>
  /\ fout.avg = <<"4", "0", ".", "0">>

\* The spellings the name c of a registered column is also known by: its
\* case variants, its aliases and their case variants.
SpellingsOf(c) ==
  Variants(c) \cup UNION {Variants(a) : a \in AliasesOf(c)}

\* C19: under every case variant and every alias of a registered column c,
\* RenderValue returns what it returns for c, and NeedForColumns returns the
\* need it returns for c.
C19_CaseAndAlias ==
  /\ (fn = "RenderValue") =>
       \A c \in Registry :
         fin.col \in SpellingsOf(c) => fout.r = RenderValue(c, fin.it, fin.s)
  /\ (fn = "NeedForColumns" /\ Len(fin.cols) = 1) =>
       \A c \in Registry :
         fin.cols[1] \in SpellingsOf(c) => fout.need = NeedForColumns(<<c>>)

\* C19 witness: the column "DIV" has been resolved to the dividend rate, as
\* div_rate is.
C19_Witness ==
  /\ fn = "RenderValue"
  /\ fin.col = ToUpper(Col.div)
  /\ fin.s = Stub("ok")
  /\ fout.r.s = SomeFundamentals.DividendRate
  /\ fout.r.req = <<NeedSummaryDetail>>

\* The upstream requests made so far for the symbol and the need of q.
FetchesOf(q) == {n \in 1..Len(xreq) : xreq[n] = q}

\* C20: in a run with a positive cache TTL and a positive cache size, no
\* (symbol, need) is fetched upstream more than once: a second resolution of
\* the pair is served by the cache.
C20_ResolvedThroughCache ==
  (xpc \in {"render", "done"} /\ xopts.PriceCacheTTL > 0
     /\ xopts.PriceCacheSize > 0) =>
    \A n \in 1..Len(xreq) : Cardinality(FetchesOf(xreq[n])) = 1

\* The bare host of a URL: what is left of it without its scheme, without a
\* leading "www." and without its path.
BareHost(u) ==
  LET a == TrimPrefix(TrimPrefix(u, <<"h", "t", "t", "p", "s", ":", "/", "/">>), <<"h", "t", "t", "p", ":", "/", "/">>)
      b == TrimPrefix(a, <<"w", "w", "w", ".">>)
  IN IF \E i \in 1..Len(b) : b[i] = "/"
     THEN SubSeq(b, 1, (CHOOSE i \in 1..Len(b) :
                         b[i] = "/" /\ \A j \in 1..(i - 1) : b[j] # "/") - 1)
     ELSE b

\* C21: the hq column is the location ("city, country" of the non-empty
\* parts), the phone and the bare host of the investor-relations URL if there
\* is one, else of the website, each left out when empty and joined by the
\* middle dot between two spaces; it neither starts nor ends with the
\* separator and has no two separators in a row.
C21_HqJoinsNonEmptyParts ==
  (fn = "Profile") =>
    LET ap == fin.ap
        loc == IF ap.City # << >> /\ ap.Country # << >>
               THEN ap.City \o <<",", " ">> \o ap.Country
               ELSE ap.City \o ap.Country
        url == IF TrimSpace(ap.IrWebsite) # << >> THEN ap.IrWebsite ELSE ap.Website
        all == <<loc, ap.Phone, BareHost(url)>>
        parts == SelectSeq(all, LAMBDA p : p # << >>)
        r == fout.r.s
    IN /\ r = Join(parts, MidDotSep)
       /\ r # << >> => r[1] # "middot" /\ r[Len(r)] # "middot"
       /\ ~HasPrefix(r, MidDotSep)
       /\ ~Contains(r, MidDotSep \o MidDotSep)

\* C22: the ceo column is empty when the officer has neither name nor title,
\* whatever the age; otherwise it holds the em dash exactly when there is a
\* title, ends with the age in parentheses exactly when there is an age, and
\* for a name, a title and an age it reads name, em dash, title, (age).
C22_CeoFormat ==
  (fn = "Officers") =>
    LET f == fout.f
        r == fout.ceo
    IN IF f.CEOName = << >> /\ f.CEOTitle = << >> THEN r = << >>
       ELSE /\ Contains(r, <<EmDash>>) <=> f.CEOTitle # << >>
            /\ f.CEOTitle # << >> => Contains(r, <<EmDash, " ">> \o f.CEOTitle)
            /\ (r # << >> /\ r[Len(r)] = ")") <=> f.CEOAge # << >>
            /\ f.CEOAge # << >> =>
                 SubSeq(r, Len(r) - Len(AgeSuffix(f.CEOAge[1])) + 1, Len(r))
                   = AgeSuffix(f.CEOAge[1])
            /\ f.CEOName # << >> => HasPrefix(r, f.CEOName)
            /\ (f.CEOName # << >> /\ f.CEOTitle # << >> /\ f.CEOAge # << >>) =>
                 r = f.CEOName \o EmDashSep \o f.CEOTitle \o AgeSuffix(f.CEOAge[1])

\* C22 witness: an officer with an age and neither name nor title has been
\* rendered as the empty string.
C22_Witness ==
  /\ fn = "Officers"
  /\ fin.officers = <<Officer.H>>
  /\ fout.f.CEOAge = <<70>>
  /\ fout.ceo = << >>

\* The assetProfile members of a Fundamentals are all empty.
NoProfileFields(f) ==
  /\ f.Sector = << >> /\ f.Industry = << >> /\ f.Employees = 0
  /\ f.City = << >> /\ f.Country = << >> /\ f.Phone = << >>
  /\ f.Website = << >> /\ f.IR = << >>
  /\ f.OfficersCount = 0 /\ f.CEOName = << >> /\ f.CEOTitle = << >>
  /\ f.CEOAge = << >> /\ f.AvgOfficerAge = << >>

\* What C23 says of a call of YFService.Get that has returned.
OneRequestByNeed ==
  LET flag == HasFlag(fin.need, NeedAssetProfile) \/ HasFlag(fin.need, NeedIndustry)
      g == fout.get
  IN /\ g.up = 1
     /\ "price" \in Range(g.mods)
     /\ "assetProfile" \in Range(g.mods) <=> flag
     /\ ~flag => NoProfileFields(g.f)

\* C23 as stated: every call of YFService.Get makes exactly one upstream
\* request, which asks for the price module always and for the assetProfile
\* module only under the profile flag or the legacy industry flag; without
\* the flag every assetProfile member of the Fundamentals is empty.
C23_OneRequestPerCall == (fn = "Profile") => OneRequestByNeed

\* C23 amended: that holds of every call with a non-empty symbol; a call
\* with the empty symbol makes no upstream request and returns the zero
\* Fundamentals.
C23_OneRequestPerSymbol ==
  (fn = "Profile") =>
    IF fin.sym # EmptySym THEN OneRequestByNeed
    ELSE /\ fout.get.up = 0 /\ fout.get.mods = << >>
         /\ fout.get.f = ZeroFundamentals /\ fout.get.err = Nil

\* C23 witness: a Get for symbol A that needs the price only was answered
\* with a profile that has a city, and returned no city after one request.
C23_Witness ==
  /\ fn = "Profile"
  /\ fin.sym = SymA /\ fin.need = NeedPrice /\ fin.resp = "ok"
  /\ fin.ap.City # << >>
  /\ fout.get.up = 1 /\ fout.get.mods = <<"price">>
  /\ fout.get.f.City = << >>

\* C24 (as claimed): whenever the mutex is free, the order list holds every
\* key of the map exactly once and no key that is absent from the map, under
\* any interleaving of concurrent Gets.
C24_OrderListsMapKeys ==
  mu = 0 =>
    /\ \A x \in DOMAIN items :
         Cardinality({i \in 1..Len(order) : order[i] = x}) = 1
    /\ \A i \in 1..Len(order) : order[i] \in DOMAIN items

\* C25 (as claimed): with capacity >= 1, at the step where a Get that fetched
\* without error releases the mutex after its insert, its key is in the map.
C25_InsertKeepsOwnEntry ==
  [][\A p \in Procs :
       (pc[p] = "inserted" /\ pc'[p] = "done" /\ size >= 1)
       => k[p] \in DOMAIN items']_vars

\* Inside CacheService.Get: called and not yet returned.
InGet(p) == pc[p] \in {"lock1", "hit", "miss", "infetch", "lock2", "inserted"}

\* C28: a Get that has returned or waits in c.mu.Lock() does not hold the
\* mutex (it was released on the path taken, and is never acquired by its
\* holder); and, as every call of the wrapped service returns, every Get that
\* was called returns, whatever the other goroutines do.
C28_EveryGetReturns ==
  /\ [](\A p \in Procs : pc[p] \in {"lock1", "lock2", "done", "idle"} => mu # p)
  /\ \A p \in Procs : InGet(p) ~> pc[p] = "done"

\* C28 witness: a Get has returned through the insert while another Get of
\* the same key, which missed too, waits for its own insert.
C28_Witness ==
  \E p \in Procs, o \in Procs :
    /\ p # o /\ pc[p] = "done" /\ FetchedOk(p)
    /\ pc[o] = "lock2" /\ k[o] = k[p] /\ mu = 0

\* Compute inferred the columns and sym is among the discovered keys.
InferredWithSym ==
  fn = "Compute" /\ Len(fin.explicit) = 0 /\ Col.sym \in Discovered(fin.items)
\* The entry of seq right after the first occurrence of c.
Follows(seq, c, d) ==
  indexOf(seq, c) # 0 /\ indexOf(seq, c) < Len(seq) /\ seq[indexOf(seq, c) + 1] = d
\* The discovered keys as Compute lists them before the defaults are put in.
SortedKeys(set) ==
  (IF Col.sym \in set THEN <<Col.sym>> ELSE << >>) \o SortStrings(set \ {Col.sym})
\* Each default column is in out once, the discovered keys keep their order,
\* and an inserted name follows sym and an inserted chg% follows price.
DefaultsInserted(set, out) ==
  /\ Range(out) = set \cup Range(DefaultCols)
  /\ Len(out) = Cardinality(Range(out))
  /\ SelectSeq(out, LAMBDA c : c \in set) = SortedKeys(set)
  /\ Col.name \notin set => Follows(out, Col.sym, Col.name)
  /\ Col.chgpct \notin set => Follows(out, Col.price, Col.chgpct)

\* C26 (as claimed): when Compute infers the columns and sym is present, a
\* default column is inserted only if it was not discovered; name is inserted
\* right after sym; price is inserted right after name if name was inserted,
\* otherwise right after sym; chg% is inserted right after price; a default
\* column that was discovered stays at its lexicographic position.
C26_PriceAfterInsertedNameElseSym ==
  InferredWithSym =>
    LET set == Discovered(fin.items) IN
      /\ DefaultsInserted(set, fout.cols)
      /\ Col.price \notin set =>
           IF Col.name \notin set THEN Follows(fout.cols, Col.name, Col.price)
           ELSE Follows(fout.cols, Col.sym, Col.price)

\* C26 (amended): as above, but price is inserted right after name whether
\* name was inserted or was discovered.
C26_PriceAfterName ==
  InferredWithSym =>
    LET set == Discovered(fin.items) IN
      /\ DefaultsInserted(set, fout.cols)
      /\ Col.price \notin set => Follows(fout.cols, Col.name, Col.price)

\* C26 witness: Compute(nil, items) for one item with sym, name and exchange
\* has returned [sym, exchange, name, price, chg%].
C26_Witness ==
  /\ InferredWithSym
  /\ fin.items = <<toItem(Raw[2])>>
  /\ fout.cols = <<Col.sym, Col.exchange, Col.name, Col.price, Col.chgpct>>

\* The number of entries of seq equal to x.
Count(seq, x) == Cardinality({i \in 1..Len(seq) : seq[i] = x})
\* The orderings of the items of its.
Orderings(its) ==
  {o \in SeqsOfLen(Range(its), Len(its)) : \A x \in Range(its) : Count(o, x) = Count(its, x)}

\* C29: when Compute infers the columns and no item has a non-empty symbol or
\* a field named sym, the result is the field names of the items, plus name
\* if some item has a non-empty name, in strictly increasing lexicographic
\* order -- no default column is added -- and every ordering of the items
\* gives the same result.
C29_NoSymNoDefaults ==
  (/\ fn = "Compute" /\ Len(fin.explicit) = 0
   /\ \A i \in 1..Len(fin.items) :
        fin.items[i].Sym = << >> /\ Col.sym \notin DOMAIN fin.items[i].Fields) =>
    LET its == fin.items
        named == \E i \in 1..Len(its) : its[i].Name # << >>
        keys == UNION {DOMAIN its[i].Fields : i \in 1..Len(its)}
                  \cup (IF named THEN {Col.name} ELSE {})
    IN /\ Range(fout.cols) = keys
       /\ \A i \in 1..(Len(fout.cols) - 1) : StrLess(fout.cols[i], fout.cols[i + 1])
       /\ \A o \in Orderings(its) : Compute(<< >>, o) = fout.cols

\* C29 witness: Compute(nil, items) for an item with name and thesis and an
\* item with a nil sym and a price has returned [name, price, thesis].
C29_Witness ==
  /\ fn = "Compute" /\ Len(fin.explicit) = 0
  /\ fin.items = <<toItem(Raw[4]), toItem(Raw[5])>>
  /\ fout.cols = <<Col.name, Col.price, Col.thesis>>

\* The non-nil fields of it whose name is col up to the case of its letters.
FieldsFolding(col, it) ==
  {f \in DOMAIN it.Fields : ToLower(f) = ToLower(col) /\ it.Fields[f] # NilVal}

\* C27 (as claimed): for a column with no resolver and an item with no field
\* of exactly that name, RenderValue returns the string form of a non-nil
\* field whose name is the column's up to case, when the item has one.
C27_FieldFallbackFoldsCase ==
  (/\ fn = "RenderValue"
   /\ fin.col \notin Registry /\ Canonical(fin.col) \notin Registry
   /\ fin.col \notin DOMAIN fin.it.Fields
   /\ FieldsFolding(fin.col, fin.it) # {}) =>
    \E f \in FieldsFolding(fin.col, fin.it) : fout.r.s = Sprint(fin.it.Fields[f])

\* The sort keys of the rows in the order of the watchlist.
SortKeys == fin.rows
\* The place of the n-th item of the watchlist among the sorted rows.
PlaceOf(n) == CHOOSE i \in 1..Len(fout.rows) : fout.rows[i].it = fin.items[n]

\* C30 (as claimed): the comparison that sorts the rows is irreflexive and
\* transitive over the rows of the table, in ascending and in descending
\* mode; the rows with a missing sort value come after every row with one;
\* and two rows of which neither is before the other keep their order.
C30_SortIsStrictWeakOrder ==
  (fn = "Sort") =>
    LET ks == SortKeys
        n == Len(ks)
        lt(i, j) == rowLess(ks[i], ks[j], fin.desc)
    IN /\ \A i \in 1..n : ~lt(i, i)
       /\ \A i, j, l \in 1..n : (lt(i, j) /\ lt(j, l)) => lt(i, l)
       /\ \A i, j \in 1..n : (ks[i].missing /\ ~ks[j].missing) => PlaceOf(j) < PlaceOf(i)
       /\ \A i, j \in 1..n : (i < j /\ ~lt(i, j) /\ ~lt(j, i)) => PlaceOf(i) < PlaceOf(j)

\* The history variable lru lists the cached keys, each once.
LruSane ==
  /\ {lru[i] : i \in 1..Len(lru)} = DOMAIN items
  /\ Len(lru) = Cardinality(DOMAIN items)

====
